---- MODULE Spec2Model ----
(***************************************************************************)
(* Workday calendar: GregorianCalendar (validity, holidays, day stepping), *)
(* TimeUtils (minute arithmetic), Date (value type, day of week, string    *)
(* key) and WorkdayCalendar (configuration and getWorkdayIncrement).       *)
(*                                                                         *)
(* A Date is a record of its five int fields.  A std::unique_ptr<Date> is  *)
(* a sequence of length 0 (nullptr) or 1 (the owned Date).  A float amount *)
(* of workdays is an integer number of quarter days q (amount = q / 4):    *)
(* such amounts and their products with a duration below 1440 minutes are  *)
(* exactly representable in a float, so the float arithmetic of            *)
(* getWorkdayIncrement is exact integer arithmetic on q.                   *)
(***************************************************************************)
EXTENDS Integers, Sequences, FiniteSets, TLC

\* ------------------------------------------------------------------------
\* Program constants
\* ------------------------------------------------------------------------
WORKWEEK_DURATION == 5
HOURS_IN_DAY == 24
MINUTES_IN_HOUR == 60
MINUTES_IN_DAY == MINUTES_IN_HOUR * HOURS_IN_DAY

\* ------------------------------------------------------------------------
\* Bounds of the model
\* ------------------------------------------------------------------------
\* largest whole number of workdays passed to getWorkdayIncrement
MaxWholeDays == 6
\* largest number of one-time holidays registered
MaxHolidays == 2
\* largest number of recurring holidays registered
MaxRecurring == 1

\* ------------------------------------------------------------------------
\* C++ int arithmetic: / truncates toward zero, % has the dividend's sign
\* ------------------------------------------------------------------------
CDiv(a, b) ==
    LET abs(x) == IF x < 0 THEN -x ELSE x
    IN IF (a >= 0) = (b > 0) THEN abs(a) \div abs(b) ELSE -(abs(a) \div abs(b))
CRem(a, b) == a - b * CDiv(a, b)

\* ------------------------------------------------------------------------
\* Date
\* ------------------------------------------------------------------------
Date(y, m, d, h, mi) == [year |-> y, month |-> m, day |-> d, hour |-> h, minute |-> mi]

\* Date::Date(): all components 0
DefaultDate == Date(0, 0, 0, 0, 0)

\* Date::setDate on a copy: all five fields overwritten
setDate(y, m, d, h, mi) == Date(y, m, d, h, mi)

\* Date::getTime: the (hour, minute) tuple
getTime(date) == <<date.hour, date.minute>>

generateInvalidDate == Date(-1, -1, -1, -1, -1)

\* Sakamoto table t[] (0-based in the source, 1-based here)
SakamotoT == <<0, 3, 2, 5, 0, 3, 5, 1, 4, 6, 2, 4>>

dayOfWeek(date) ==
    LET y == IF date.month < 3 THEN date.year - 1 ELSE date.year
    IN CRem(y + CDiv(y, 4) - CDiv(y, 100) + CDiv(y, 400)
            + SakamotoT[date.month] + date.day, 7)

\* operator<< of an int under setw(w) << setfill('0'): the decimal digits, a
\* leading '-' for a negative value, padded on the left with '0' to width w
DigitChar == <<"0", "1", "2", "3", "4", "5", "6", "7", "8", "9">>

RECURSIVE Digits(_)
Digits(n) ==
    IF n < 10 THEN <<DigitChar[n + 1]>>
    ELSE Digits(n \div 10) \o <<DigitChar[(n % 10) + 1]>>

IntText(n) == IF n < 0 THEN <<"-">> \o Digits(-n) ELSE Digits(n)

RECURSIVE PadLeft(_, _)
PadLeft(s, w) == IF Len(s) >= w THEN s ELSE PadLeft(<<"0">> \o s, w)

\* Date::getDate: "YYYY-MM-DD " as a sequence of characters
getDate(date) ==
    PadLeft(IntText(date.year), 4) \o <<"-">>
    \o PadLeft(IntText(date.month), 2) \o <<"-">>
    \o PadLeft(IntText(date.day), 2) \o <<" ">>

\* ------------------------------------------------------------------------
\* TimeUtils
\* ------------------------------------------------------------------------
convertToMinutes(time_i) == time_i[1] * MINUTES_IN_HOUR + time_i[2]

subtractTime_NoWrap(larger, smaller) ==
    LET diff == convertToMinutes(larger) - convertToMinutes(smaller)
    IN <<CDiv(diff, MINUTES_IN_HOUR), CRem(diff, MINUTES_IN_HOUR)>>

subtractTime(larger, smaller) ==
    LET diff0 == convertToMinutes(larger) - convertToMinutes(smaller)
        diff == IF diff0 < 0 THEN diff0 + MINUTES_IN_DAY ELSE diff0
    IN <<CDiv(diff, MINUTES_IN_HOUR), CRem(diff, MINUTES_IN_HOUR)>>

subtractMinutes(larger, smaller) ==
    LET diff0 == larger - smaller
        diff == IF diff0 < 0 THEN diff0 + MINUTES_IN_DAY ELSE diff0
    IN <<CDiv(diff, MINUTES_IN_HOUR), CRem(diff, MINUTES_IN_HOUR)>>

addMinutes(left, right) ==
    LET total == left + right
    IN <<CDiv(total, MINUTES_IN_HOUR), CRem(total, MINUTES_IN_HOUR)>>

\* ------------------------------------------------------------------------
\* GregorianCalendar: pure parts
\* ------------------------------------------------------------------------
isLeapYear_EveryFourthYear(year) == CRem(year, 4) = 0

isLeapYear(year) ==
    IF CRem(year, 4) # 0 THEN FALSE
    ELSE IF CRem(year, 100) # 0 THEN TRUE
    ELSE IF CRem(year, 400) = 0 THEN TRUE
    ELSE FALSE

daysInMonth(year, month) ==
    IF month \in {1, 3, 5, 7, 8, 10, 12} THEN 31
    ELSE IF month \in {4, 6, 9, 11} THEN 30
    ELSE IF month = 2 THEN (IF isLeapYear(year) THEN 29 ELSE 28)
    ELSE 30

isValidDateNoDayCheck(date) ==
    /\ ~(date.year < 0 \/ date.month < 1 \/ date.month > 12)
    /\ ~(date.hour < 0 \/ date.hour >= 24 \/ date.minute < 0 \/ date.minute >= 60)

isValidDate(date) ==
    /\ ~(date.year < 0 \/ date.month < 1 \/ date.month > 12 \/ date.day < 1
         \/ date.day > daysInMonth(date.year, date.month))
    /\ ~(date.hour < 0 \/ date.hour >= 24 \/ date.minute < 0 \/ date.minute >= 60)

addDay(date_i) ==
    LET newDay0 == date_i.day + 1
        over == newDay0 > daysInMonth(date_i.year, date_i.month)
        newDay == IF over THEN 1 ELSE newDay0
        newMonth0 == IF over THEN date_i.month + 1 ELSE date_i.month
        newMonth == IF over /\ newMonth0 > 12 THEN 1 ELSE newMonth0
        newYear == IF over /\ newMonth0 > 12 THEN date_i.year + 1 ELSE date_i.year
    IN setDate(newYear, newMonth, newDay, date_i.hour, date_i.minute)

removeDay_LengthOfCurrentMonth(date) ==
    LET newDay0 == date.day - 1
        under == newDay0 < 1
        newMonth0 == IF under THEN date.month - 1 ELSE date.month
        newMonth == IF under /\ newMonth0 < 1 THEN 12 ELSE newMonth0
        newYear == IF under /\ newMonth0 < 1 THEN date.year - 1 ELSE date.year
        newDay == IF under THEN daysInMonth(date.year, date.month) ELSE newDay0
    IN setDate(newYear, newMonth, newDay, date.hour, date.minute)

removeDay(date) ==
    LET newDay0 == date.day - 1
        under == newDay0 < 1
        newMonth0 == IF under THEN date.month - 1 ELSE date.month
        newMonth == IF under /\ newMonth0 < 1 THEN 12 ELSE newMonth0
        newYear == IF under /\ newMonth0 < 1 THEN date.year - 1 ELSE date.year
        newDay == IF under THEN daysInMonth(newYear, newMonth) ELSE newDay0
    IN setDate(newYear, newMonth, newDay, date.hour, date.minute)

\* ------------------------------------------------------------------------
\* State
\* ------------------------------------------------------------------------
VARIABLES
    workday_start_,        \* unique_ptr<Date>: <<>> or <<Date>>
    workday_stop_,         \* unique_ptr<Date>
    workday_duration_,     \* unique_ptr<Date>
    holidays_,             \* std::set<std::string> of getDate() keys
    recurring_holidays_,   \* std::set<std::pair<int,int>> of <<month, day>>
    op,                    \* the public call that last ran, "none" once the caller took its result
    argStart,              \* its first Date argument
    argStop,               \* its second Date argument (setWorkdayStartAndStop)
    argAmount,             \* its amount, in quarter workdays (getWorkdayIncrement)
    ret,                   \* the Date it returned
    retBool,               \* the bool it returned (isHoliday)
    status,                \* "returned"; "aborted": the process was killed in the call; "undefined"
    lastSet,               \* history: outcome of the most recent setWorkdayStartAndStop
    everAccepted,          \* history: some setWorkdayStartAndStop call was accepted
    calledHoliday,         \* history: <<year, month, day>> of the valid dates passed to setHoliday
    calledRecurring,       \* history: <<month, day>> of the valid dates passed to setRecurringHoliday
    frames                 \* the locals and position of a call that runs step by step

vars == <<workday_start_, workday_stop_, workday_duration_, holidays_,
          recurring_holidays_, op, argStart, argStop, argAmount, ret, retBool,
          status, lastSet, everAccepted, calledHoliday, calledRecurring, frames>>

config == <<workday_start_, workday_stop_, workday_duration_>>
holidaySets == <<holidays_, recurring_holidays_>>

nullptr == <<>>
make_unique(date) == <<date>>

\* ------------------------------------------------------------------------
\* Inputs of the public calls
\* ------------------------------------------------------------------------
\* arguments of setWorkdayStartAndStop: the test suite's workday (08:00, 16:00),
\* a stop time (16:10) that makes a workday of 490 minutes, of which a quarter
\* is no whole number of minutes, and the test suite's two invalid dates
ConfigDates ==
    { Date(2004, 1, 1, 8, 0), Date(2004, 1, 1, 16, 0), Date(2004, 1, 1, 16, 10),
      Date(2024, -5, 20, 8, 0), Date(-2024, 5, 20, 17, 0) }

\* arguments of setHoliday
HolidayDates ==
    { Date(2024, 7, 4, 0, 0), Date(2024, 7, 5, 9, 30), Date(2024, 12, 31, 0, 0),
      Date(2023, 2, 29, 0, 0), Date(2024, 7, 4, 24, 0) }

\* arguments of setRecurringHoliday
RecurringDates ==
    { Date(2024, 12, 25, 0, 0), Date(2004, 2, 29, 12, 0),
      Date(2024, 13, 1, 0, 0), generateInvalidDate }

\* calendar days and clock times of the start dates of getWorkdayIncrement
StartDays ==
    { <<2024, 2, 28>>, <<2024, 3, 1>>, <<2024, 5, 11>>, <<2024, 7, 3>>,
      <<2024, 7, 4>>, <<2024, 12, 30>>, <<0, 2, 11>>, <<0, 2, 13>> }
StartTimes == { <<7, 3>>, <<8, 0>>, <<14, 0>>, <<15, 7>>, <<16, 0>>, <<18, 3>> }

StartDates ==
    { Date(d[1], d[2], d[3], t[1], t[2]) : d \in StartDays, t \in StartTimes }
    \cup { DefaultDate, generateInvalidDate, Date(2023, 2, 29, 9, 0) }

\* amounts in quarter workdays: every whole number of days up to MaxWholeDays,
\* 0.25, 0.5, 0.75 and MaxWholeDays - 0.5, of either sign
Amounts ==
    { 4 * n : n \in (-MaxWholeDays)..MaxWholeDays }
    \cup { 1, 2, 3, -1, -2, -3, 4 * MaxWholeDays - 2, 2 - 4 * MaxWholeDays }

\* dates probed with isHoliday
ProbeDates ==
    { Date(d[1], d[2], d[3], 9, 0) : d \in StartDays }
    \cup { Date(2024, 7, 5, 0, 0), Date(2024, 12, 31, 23, 59), Date(2025, 12, 25, 8, 0),
           Date(2025, 7, 4, 8, 0), Date(2023, 3, 1, 8, 0),
           Date(0, 1, 2, 9, 0), Date(0, 1, 7, 9, 0), Date(0, 3, 1, 9, 0) }

\* ------------------------------------------------------------------------
\* GregorianCalendar: holiday sets
\* ------------------------------------------------------------------------
GregorianCalendar_setHoliday_NoCheck(date) == holidays_ \cup {getDate(date)}

GregorianCalendar_setHoliday(date) ==
    IF isValidDate(date) THEN holidays_ \cup {getDate(date)} ELSE holidays_

GregorianCalendar_setRecurringHoliday(date) ==
    IF isValidDate(date) THEN recurring_holidays_ \cup {<<date.month, date.day>>}
    ELSE recurring_holidays_

isHoliday(date) ==
    LET day_of_week == dayOfWeek(date)
    IN IF day_of_week = 0 \/ day_of_week = 6 THEN TRUE
       ELSE IF getDate(date) \in holidays_ THEN TRUE
       ELSE IF <<date.month, date.day>> \in recurring_holidays_ THEN TRUE
       ELSE FALSE

\* ------------------------------------------------------------------------
\* WorkdayCalendar: private helpers
\* ------------------------------------------------------------------------
\* TRUE for every date.  Operator arguments are evaluated when first used: a
\* loop tests this on its date so that each iteration works on a computed
\* date, as the C++ loops do on the Date object they update in place.
Computed(date) == date = date

withTime(date, t) == setDate(date.year, date.month, date.day, t.hour, t.minute)

\* the while loop of incrementWorkDay: skips holidays in the stepping direction
RECURSIVE SkipHolidays(_, _)
SkipHolidays(startDate, decrement) ==
    IF isHoliday(startDate)
    THEN SkipHolidays(IF decrement THEN removeDay(startDate) ELSE addDay(startDate),
                      decrement)
    ELSE startDate

incrementWorkDay_NoSkip(startDate, decrement) ==
    IF decrement THEN removeDay(startDate) ELSE addDay(startDate)

incrementWorkDay(startDate, decrement) ==
    SkipHolidays(IF decrement THEN removeDay(startDate) ELSE addDay(startDate), decrement)

\* for (i = 0; i < WORKWEEK_DURATION; ++i) incrementWorkDay(startDate, decrement)
RECURSIVE WorkWeekLoop(_, _, _)
WorkWeekLoop(startDate, decrement, i) ==
    IF Computed(startDate) /\ i < WORKWEEK_DURATION
    THEN WorkWeekLoop(incrementWorkDay(startDate, decrement), decrement, i + 1)
    ELSE startDate

incrementWorkWeek(startDate, decrement) == WorkWeekLoop(startDate, decrement, 0)

addRemainingMinutes_StrictBound(minutes, current) ==
    LET stop_minutes == convertToMinutes(getTime(workday_stop_[1]))
        start_minutes == convertToMinutes(getTime(workday_start_[1]))
        current_minutes0 == convertToMinutes(getTime(current))
        current1 ==
            IF current_minutes0 >= stop_minutes
            THEN withTime(incrementWorkDay(current, FALSE), workday_start_[1])
            ELSE IF current_minutes0 < start_minutes
            THEN withTime(current, workday_start_[1])
            ELSE current
        current_minutes == convertToMinutes(getTime(current1))
    IN IF (current_minutes + minutes) < stop_minutes
       THEN LET hm == addMinutes(current_minutes, minutes)
            IN setDate(current1.year, current1.month, current1.day, hm[1], hm[2])
       ELSE LET next == incrementWorkDay(current1, FALSE)
                remaining_minutes == (current_minutes + minutes) - stop_minutes
                hm == addMinutes(start_minutes, remaining_minutes)
            IN setDate(next.year, next.month, next.day, hm[1], hm[2])

addRemainingMinutes_StopExclusive(minutes, current) ==
    LET stop_minutes == convertToMinutes(getTime(workday_stop_[1]))
        start_minutes == convertToMinutes(getTime(workday_start_[1]))
        current_minutes0 == convertToMinutes(getTime(current))
        current1 ==
            IF current_minutes0 > stop_minutes
            THEN withTime(incrementWorkDay(current, FALSE), workday_start_[1])
            ELSE IF current_minutes0 < start_minutes
            THEN withTime(current, workday_start_[1])
            ELSE current
        current_minutes == convertToMinutes(getTime(current1))
    IN IF (current_minutes + minutes) <= stop_minutes
       THEN LET hm == addMinutes(current_minutes, minutes)
            IN setDate(current1.year, current1.month, current1.day, hm[1], hm[2])
       ELSE LET next == incrementWorkDay(current1, FALSE)
                remaining_minutes == (current_minutes + minutes) - stop_minutes
                hm == addMinutes(start_minutes, remaining_minutes)
            IN setDate(next.year, next.month, next.day, hm[1], hm[2])

addRemainingMinutes_NoSnapToStart(minutes, current) ==
    LET stop_minutes == convertToMinutes(getTime(workday_stop_[1]))
        start_minutes == convertToMinutes(getTime(workday_start_[1]))
        current_minutes0 == convertToMinutes(getTime(current))
        current1 ==
            IF current_minutes0 >= stop_minutes
            THEN withTime(incrementWorkDay(current, FALSE), workday_start_[1])
            ELSE IF current_minutes0 < start_minutes
            THEN current
            ELSE current
        current_minutes == convertToMinutes(getTime(current1))
    IN IF (current_minutes + minutes) <= stop_minutes
       THEN LET hm == addMinutes(current_minutes, minutes)
            IN setDate(current1.year, current1.month, current1.day, hm[1], hm[2])
       ELSE LET next == incrementWorkDay(current1, FALSE)
                remaining_minutes == (current_minutes + minutes) - stop_minutes
                hm == addMinutes(start_minutes, remaining_minutes)
            IN setDate(next.year, next.month, next.day, hm[1], hm[2])

addRemainingMinutes_NoRollForward(minutes, current) ==
    LET stop_minutes == convertToMinutes(getTime(workday_stop_[1]))
        start_minutes == convertToMinutes(getTime(workday_start_[1]))
        current_minutes0 == convertToMinutes(getTime(current))
        current1 ==
            IF current_minutes0 >= stop_minutes
            THEN withTime(current, workday_start_[1])
            ELSE IF current_minutes0 < start_minutes
            THEN withTime(current, workday_start_[1])
            ELSE current
        current_minutes == convertToMinutes(getTime(current1))
    IN IF (current_minutes + minutes) <= stop_minutes
       THEN LET hm == addMinutes(current_minutes, minutes)
            IN setDate(current1.year, current1.month, current1.day, hm[1], hm[2])
       ELSE LET next == incrementWorkDay(current1, FALSE)
                remaining_minutes == (current_minutes + minutes) - stop_minutes
                hm == addMinutes(start_minutes, remaining_minutes)
            IN setDate(next.year, next.month, next.day, hm[1], hm[2])

addRemainingMinutes(minutes, current) ==
    LET stop_minutes == convertToMinutes(getTime(workday_stop_[1]))
        start_minutes == convertToMinutes(getTime(workday_start_[1]))
        current_minutes0 == convertToMinutes(getTime(current))
        current1 ==
            IF current_minutes0 >= stop_minutes
            THEN withTime(incrementWorkDay(current, FALSE), workday_start_[1])
            ELSE IF current_minutes0 < start_minutes
            THEN withTime(current, workday_start_[1])
            ELSE current
        current_minutes == convertToMinutes(getTime(current1))
    IN IF (current_minutes + minutes) <= stop_minutes
       THEN LET hm == addMinutes(current_minutes, minutes)
            IN setDate(current1.year, current1.month, current1.day, hm[1], hm[2])
       ELSE LET next == incrementWorkDay(current1, FALSE)
                remaining_minutes == (current_minutes + minutes) - stop_minutes
                hm == addMinutes(start_minutes, remaining_minutes)
            IN setDate(next.year, next.month, next.day, hm[1], hm[2])

removeRemainingMinutes_StrictBound(minutes, current) ==
    LET stop_minutes == convertToMinutes(getTime(workday_stop_[1]))
        start_minutes == convertToMinutes(getTime(workday_start_[1]))
        current_minutes0 == convertToMinutes(getTime(current))
        current1 ==
            IF current_minutes0 >= stop_minutes
            THEN withTime(current, workday_stop_[1])
            ELSE IF current_minutes0 < start_minutes
            THEN withTime(incrementWorkDay(current, TRUE), workday_stop_[1])
            ELSE current
        current_minutes == convertToMinutes(getTime(current1))
    IN IF (current_minutes - minutes) > start_minutes
       THEN LET hm == subtractMinutes(current_minutes, minutes)
            IN setDate(current1.year, current1.month, current1.day, hm[1], hm[2])
       ELSE LET prev == incrementWorkDay(current1, TRUE)
                remaining_minutes == start_minutes - (current_minutes - minutes)
                hm == subtractMinutes(stop_minutes, remaining_minutes)
            IN setDate(prev.year, prev.month, prev.day, hm[1], hm[2])

removeRemainingMinutes_NoRollBack(minutes, current) ==
    LET stop_minutes == convertToMinutes(getTime(workday_stop_[1]))
        start_minutes == convertToMinutes(getTime(workday_start_[1]))
        current_minutes0 == convertToMinutes(getTime(current))
        current1 ==
            IF current_minutes0 >= stop_minutes
            THEN withTime(current, workday_stop_[1])
            ELSE IF current_minutes0 < start_minutes
            THEN withTime(current, workday_stop_[1])
            ELSE current
        current_minutes == convertToMinutes(getTime(current1))
    IN IF (current_minutes - minutes) >= start_minutes
       THEN LET hm == subtractMinutes(current_minutes, minutes)
            IN setDate(current1.year, current1.month, current1.day, hm[1], hm[2])
       ELSE LET prev == incrementWorkDay(current1, TRUE)
                remaining_minutes == start_minutes - (current_minutes - minutes)
                hm == subtractMinutes(stop_minutes, remaining_minutes)
            IN setDate(prev.year, prev.month, prev.day, hm[1], hm[2])

removeRemainingMinutes_NoSnapToStop(minutes, current) ==
    LET stop_minutes == convertToMinutes(getTime(workday_stop_[1]))
        start_minutes == convertToMinutes(getTime(workday_start_[1]))
        current_minutes0 == convertToMinutes(getTime(current))
        current1 ==
            IF current_minutes0 >= stop_minutes
            THEN current
            ELSE IF current_minutes0 < start_minutes
            THEN withTime(incrementWorkDay(current, TRUE), workday_stop_[1])
            ELSE current
        current_minutes == convertToMinutes(getTime(current1))
    IN IF (current_minutes - minutes) >= start_minutes
       THEN LET hm == subtractMinutes(current_minutes, minutes)
            IN setDate(current1.year, current1.month, current1.day, hm[1], hm[2])
       ELSE LET prev == incrementWorkDay(current1, TRUE)
                remaining_minutes == start_minutes - (current_minutes - minutes)
                hm == subtractMinutes(stop_minutes, remaining_minutes)
            IN setDate(prev.year, prev.month, prev.day, hm[1], hm[2])

removeRemainingMinutes_KeepsDay(minutes, current) ==
    LET stop_minutes == convertToMinutes(getTime(workday_stop_[1]))
        start_minutes == convertToMinutes(getTime(workday_start_[1]))
        current_minutes0 == convertToMinutes(getTime(current))
        current1 ==
            IF current_minutes0 >= stop_minutes
            THEN withTime(current, workday_stop_[1])
            ELSE IF current_minutes0 < start_minutes
            THEN withTime(incrementWorkDay(current, TRUE), workday_stop_[1])
            ELSE current
        current_minutes == convertToMinutes(getTime(current1))
    IN IF (current_minutes - minutes) >= start_minutes
       THEN LET hm == subtractMinutes(current_minutes, minutes)
            IN setDate(current1.year, current1.month, current1.day, hm[1], hm[2])
       ELSE LET prev == current1
                remaining_minutes == start_minutes - (current_minutes - minutes)
                hm == subtractMinutes(stop_minutes, remaining_minutes)
            IN setDate(prev.year, prev.month, prev.day, hm[1], hm[2])

removeRemainingMinutes(minutes, current) ==
    LET stop_minutes == convertToMinutes(getTime(workday_stop_[1]))
        start_minutes == convertToMinutes(getTime(workday_start_[1]))
        current_minutes0 == convertToMinutes(getTime(current))
        current1 ==
            IF current_minutes0 >= stop_minutes
            THEN withTime(current, workday_stop_[1])
            ELSE IF current_minutes0 < start_minutes
            THEN withTime(incrementWorkDay(current, TRUE), workday_stop_[1])
            ELSE current
        current_minutes == convertToMinutes(getTime(current1))
    IN IF (current_minutes - minutes) >= start_minutes
       THEN LET hm == subtractMinutes(current_minutes, minutes)
            IN setDate(current1.year, current1.month, current1.day, hm[1], hm[2])
       ELSE LET prev == incrementWorkDay(current1, TRUE)
                remaining_minutes == start_minutes - (current_minutes - minutes)
                hm == subtractMinutes(stop_minutes, remaining_minutes)
            IN setDate(prev.year, prev.month, prev.day, hm[1], hm[2])

\* updateWorkingDuration for the start and stop just stored
updateWorkingDuration(start, stop) ==
    LET hm == subtractTime(getTime(stop), getTime(start))
    IN make_unique(Date(0, 0, 0, hm[1], hm[2]))

\* ------------------------------------------------------------------------
\* WorkdayCalendar::getWorkdayIncrement
\* ------------------------------------------------------------------------
\* float has a significand of 24 bits: n / 2^shift rounded to the nearest
\* integer, ties to the even one
RoundHalfEven(n, shift) ==
    LET d == 2 ^ shift
        quotient == n \div d
        rest == n % d
    IN IF 2 * rest > d \/ (2 * rest = d /\ quotient % 2 = 1)
       THEN quotient + 1 ELSE quotient

\* the bits by which the non-negative n exceeds the 24 bits of a significand
ExcessBits(n) ==
    IF n < 2 ^ 24 THEN 0
    ELSE CHOOSE shift \in 1..7 : n \div (2 ^ shift) < 2 ^ 24
                                /\ n \div (2 ^ (shift - 1)) >= 2 ^ 24

\* static_cast<long>(incrementInWorkdays * workdayInMinutes) for the
\* non-negative amount q / 4: workdayInMinutes is converted to float, the
\* float product is rounded to float, and the cast truncates toward zero
IncrementInMinutes(q, workdayInMinutes) ==
    LET magnitude == IF workdayInMinutes < 0 THEN -workdayInMinutes
                     ELSE workdayInMinutes
        exponent == ExcessBits(magnitude)
        significand == RoundHalfEven(magnitude, exponent)
        product == q * significand
        excess == ExcessBits(product)
        rounded == RoundHalfEven(product, excess) * (2 ^ excess)
        truncated == IF exponent >= 2 THEN rounded * (2 ^ (exponent - 2))
                     ELSE (rounded * (2 ^ exponent)) \div 4
    IN IF workdayInMinutes < 0 THEN -truncated ELSE truncated

RECURSIVE MoveToFirstWorkday_KeepsClock(_, _)
MoveToFirstWorkday_KeepsClock(current, decrement) ==
    IF isHoliday(current)
    THEN IF decrement
         THEN MoveToFirstWorkday_KeepsClock(removeDay(current), decrement)
         ELSE MoveToFirstWorkday_KeepsClock(addDay(current), decrement)
    ELSE current

RECURSIVE MoveToFirstWorkday_StepsFirst(_, _)
MoveToFirstWorkday_StepsFirst(current, decrement) ==
    LET next == IF decrement THEN withTime(removeDay(current), workday_stop_[1])
                ELSE withTime(addDay(current), workday_start_[1])
    IN IF isHoliday(next) THEN MoveToFirstWorkday_StepsFirst(next, decrement) ELSE next

\* "move to first workday": the while loop over isHoliday(current)
RECURSIVE MoveToFirstWorkday(_, _)
MoveToFirstWorkday(current, decrement) ==
    IF isHoliday(current)
    THEN IF decrement
         THEN MoveToFirstWorkday(withTime(removeDay(current), workday_stop_[1]), decrement)
         ELSE MoveToFirstWorkday(withTime(addDay(current), workday_start_[1]), decrement)
    ELSE current

\* while (workWeeks-- > 0) incrementWorkWeek(current, decrement)
RECURSIVE WorkWeeksLoop(_, _, _)
WorkWeeksLoop(current, decrement, workWeeks) ==
    IF Computed(current) /\ workWeeks > 0
    THEN WorkWeeksLoop(incrementWorkWeek(current, decrement), decrement, workWeeks - 1)
    ELSE current

\* while (remainingWorkDays-- > 0) incrementWorkDay(current, decrement)
RECURSIVE RemainingWorkDaysLoop(_, _, _)
RemainingWorkDaysLoop(current, decrement, remainingWorkDays) ==
    IF Computed(current) /\ remainingWorkDays > 0
    THEN RemainingWorkDaysLoop(incrementWorkDay(current, decrement), decrement,
                               remainingWorkDays - 1)
    ELSE current

\* the body from "move to first workday" to "return current", for the whole
\* workdays and the remaining minutes the two divisions produced
StepFrom(startDate, decrement, workDays, remaining_minutes) ==
    LET workWeeks == CDiv(workDays, WORKWEEK_DURATION)
        aligned == MoveToFirstWorkday(startDate, decrement)
        afterWeeks == WorkWeeksLoop(aligned, decrement, workWeeks)
        remainingWorkDays == CRem(workDays, WORKWEEK_DURATION)
        afterDays == RemainingWorkDaysLoop(afterWeeks, decrement, remainingWorkDays)
    IN IF Computed(aligned) /\ Computed(afterWeeks) /\ Computed(afterDays) /\ decrement
       THEN removeRemainingMinutes(remaining_minutes, afterDays)
       ELSE addRemainingMinutes(remaining_minutes, afterDays)

Returned(date) == [status |-> "returned", ret |-> date]
Aborted == [status |-> "aborted", ret |-> DefaultDate]

\* The outcomes of getWorkdayIncrement(startDate, q / 4).  With a duration of 0
\* minutes the two integer divisions divide by zero, which is undefined: the
\* process is killed (x86/x64 divide error), or the division yields 0 and the
\* remainder the dividend (AArch64), and the call goes on.
getWorkdayIncrementOutcomes(startDate, q) ==
    IF ~isValidDate(startDate) THEN {Returned(generateInvalidDate)}
    ELSE IF workday_start_ = nullptr \/ workday_stop_ = nullptr
            \/ workday_duration_ = nullptr
    THEN {Returned(generateInvalidDate)}
    ELSE
      LET decrement == q < 0
          absq == IF decrement THEN -q ELSE q
          workdayInMinutes == convertToMinutes(getTime(workday_duration_[1]))
          workDay_IncrementInMinutes == IncrementInMinutes(absq, workdayInMinutes)
      IN IF workdayInMinutes = 0
         THEN {Aborted,
               Returned(StepFrom(startDate, decrement, 0, workDay_IncrementInMinutes))}
         ELSE {Returned(StepFrom(startDate, decrement,
                                 CDiv(workDay_IncrementInMinutes, workdayInMinutes),
                                 CRem(workDay_IncrementInMinutes, workdayInMinutes)))}

\* no call is running step by step
NoFrames == [pc |-> "none"]

\* ------------------------------------------------------------------------
\* Initial state: WorkdayCalendar::WorkdayCalendar()
\* ------------------------------------------------------------------------
Init ==
    /\ workday_start_ = nullptr
    /\ workday_stop_ = nullptr
    /\ workday_duration_ = nullptr
    /\ holidays_ = {}
    /\ recurring_holidays_ = {}
    /\ op = "none"
    /\ argStart = DefaultDate
    /\ argStop = DefaultDate
    /\ argAmount = 0
    /\ ret = DefaultDate
    /\ retBool = FALSE
    /\ status = "returned"
    /\ lastSet = "none"
    /\ everAccepted = FALSE
    /\ calledHoliday = {}
    /\ calledRecurring = {}
    /\ frames = NoFrames

\* a public call can start when the caller holds no pending result
Idle == op = "none" /\ status = "returned"

\* ------------------------------------------------------------------------
\* Public operations
\* ------------------------------------------------------------------------
\* the stored start, stop and duration when setWorkdayStartAndStop returns
StoredAfterSet_RejectKeeps(start, stop) ==
    IF ~isValidDate(start) \/ ~isValidDate(stop)
    THEN [start |-> workday_start_, stop |-> workday_stop_,
          duration |-> workday_duration_]
    ELSE [start |-> make_unique(Date(start.year, start.month, start.day,
                                     start.hour, start.minute)),
          stop |-> make_unique(Date(stop.year, stop.month, stop.day,
                                    stop.hour, stop.minute)),
          duration |-> updateWorkingDuration(start, stop)]

StoredAfterSet_ClearsStartOnly(start, stop) ==
    IF ~isValidDate(start) \/ ~isValidDate(stop)
    THEN [start |-> nullptr, stop |-> workday_stop_,
          duration |-> workday_duration_]
    ELSE [start |-> make_unique(Date(start.year, start.month, start.day,
                                     start.hour, start.minute)),
          stop |-> make_unique(Date(stop.year, stop.month, stop.day,
                                    stop.hour, stop.minute)),
          duration |-> updateWorkingDuration(start, stop)]

StoredAfterSet(start, stop) ==
    IF ~isValidDate(start)
    THEN [start |-> nullptr, stop |-> nullptr, duration |-> workday_duration_]
    ELSE IF ~isValidDate(stop)
    THEN [start |-> nullptr, stop |-> nullptr, duration |-> workday_duration_]
    ELSE [start |-> make_unique(Date(start.year, start.month, start.day,
                                     start.hour, start.minute)),
          stop |-> make_unique(Date(stop.year, stop.month, stop.day,
                                    stop.hour, stop.minute)),
          duration |-> updateWorkingDuration(start, stop)]

setWorkdayStartAndStop_ResetsCalendar(start, stop) ==
    /\ Idle
    /\ LET after == StoredAfterSet(start, stop)
       IN /\ workday_start_' = after.start
          /\ workday_stop_' = after.stop
          /\ workday_duration_' = after.duration
    /\ lastSet' = IF isValidDate(start) /\ isValidDate(stop) THEN "accepted" ELSE "rejected"
    /\ everAccepted' = (everAccepted \/ (isValidDate(start) /\ isValidDate(stop)))
    /\ op' = "setWorkdayStartAndStop"
    /\ argStart' = start
    /\ argStop' = stop
    /\ holidays_' = {}
    /\ recurring_holidays_' = {}
    /\ UNCHANGED <<argAmount, ret, retBool, status,
                   calledHoliday, calledRecurring, frames>>

setWorkdayStartAndStop(start, stop) ==
    /\ Idle
    /\ LET after == StoredAfterSet(start, stop)
       IN /\ workday_start_' = after.start
          /\ workday_stop_' = after.stop
          /\ workday_duration_' = after.duration
    /\ lastSet' = IF isValidDate(start) /\ isValidDate(stop) THEN "accepted" ELSE "rejected"
    /\ everAccepted' = (everAccepted \/ (isValidDate(start) /\ isValidDate(stop)))
    /\ op' = "setWorkdayStartAndStop"
    /\ argStart' = start
    /\ argStop' = stop
    /\ UNCHANGED <<holidays_, recurring_holidays_, argAmount, ret, retBool, status,
                   calledHoliday, calledRecurring, frames>>

setHoliday(date) ==
    /\ Idle
    /\ Cardinality(GregorianCalendar_setHoliday(date)) <= MaxHolidays
    /\ holidays_' = GregorianCalendar_setHoliday(date)
    /\ calledHoliday' = IF isValidDate(date)
                        THEN calledHoliday \cup {<<date.year, date.month, date.day>>}
                        ELSE calledHoliday
    /\ op' = "setHoliday"
    /\ argStart' = date
    /\ UNCHANGED <<workday_start_, workday_stop_, workday_duration_, recurring_holidays_,
                   argStop, argAmount, ret, retBool, status, lastSet,
                   everAccepted, calledRecurring, frames>>

setRecurringHoliday(date) ==
    /\ Idle
    /\ Cardinality(GregorianCalendar_setRecurringHoliday(date)) <= MaxRecurring
    /\ recurring_holidays_' = GregorianCalendar_setRecurringHoliday(date)
    /\ calledRecurring' = IF isValidDate(date)
                          THEN calledRecurring \cup {<<date.month, date.day>>}
                          ELSE calledRecurring
    /\ op' = "setRecurringHoliday"
    /\ argStart' = date
    /\ UNCHANGED <<workday_start_, workday_stop_, workday_duration_, holidays_,
                   argStop, argAmount, ret, retBool, status, lastSet,
                   everAccepted, calledHoliday, frames>>

getWorkdayIncrement(startDate, q) ==
    /\ Idle
    /\ \E o \in getWorkdayIncrementOutcomes(startDate, q) :
          /\ status' = o.status
          /\ ret' = o.ret
    /\ op' = "getWorkdayIncrement"
    /\ argStart' = startDate
    /\ argAmount' = q
    /\ UNCHANGED <<workday_start_, workday_stop_, workday_duration_, holidays_,
                   recurring_holidays_, argStop, retBool, lastSet,
                   everAccepted, calledHoliday, calledRecurring, frames>>

WorkdayCalendar_isHoliday(date_i) ==
    /\ Idle
    /\ retBool' = isHoliday(date_i)
    /\ op' = "isHoliday"
    /\ argStart' = date_i
    /\ UNCHANGED <<workday_start_, workday_stop_, workday_duration_, holidays_,
                   recurring_holidays_, argStop, argAmount, ret, status, lastSet,
                   everAccepted, calledHoliday, calledRecurring, frames>>

\* the caller takes the result of the call that returned and goes on to its
\* next call; a call that aborted has no caller left
CallerContinues ==
    /\ op # "none"
    /\ status = "returned"
    /\ op' = "none"
    /\ argStart' = DefaultDate
    /\ argStop' = DefaultDate
    /\ argAmount' = 0
    /\ ret' = DefaultDate
    /\ retBool' = FALSE
    /\ UNCHANGED <<workday_start_, workday_stop_, workday_duration_, holidays_,
                   recurring_holidays_, status, lastSet,
                   everAccepted, calledHoliday, calledRecurring, frames>>

Next ==
    \/ \E start \in ConfigDates, stop \in ConfigDates : setWorkdayStartAndStop(start, stop)
    \/ \E date \in HolidayDates : setHoliday(date)
    \/ \E date \in RecurringDates : setRecurringHoliday(date)
    \/ \E startDate \in StartDates, q \in Amounts : getWorkdayIncrement(startDate, q)
    \/ \E date_i \in ProbeDates : WorkdayCalendar_isHoliday(date_i)
    \/ CallerContinues

Spec == Init /\ [][Next]_vars

\* ------------------------------------------------------------------------
\* GregorianCalendar on its own: isValidDate, addDay and removeDay applied to
\* a date drawn from the fields below, on an engine that stays as constructed
\* ------------------------------------------------------------------------
CalendarYears == {-2024, -1, 0, 1900, 2000, 2023, 2024}
CalendarMonths == 0..13
CalendarDaysOfMonth == 0..32
CalendarTimes == { <<0, 0>>, <<9, 30>>, <<23, 59>>, <<24, 0>>, <<-1, 0>>, <<12, 60>>,
                   <<12, -1>> }

CalendarDates ==
    { Date(y, m, d, t[1], t[2]) :
        y \in CalendarYears, m \in CalendarMonths, d \in CalendarDaysOfMonth,
        t \in CalendarTimes }
    \cup { DefaultDate, generateInvalidDate }

CalendarInit ==
    /\ workday_start_ = nullptr
    /\ workday_stop_ = nullptr
    /\ workday_duration_ = nullptr
    /\ holidays_ = {}
    /\ recurring_holidays_ = {}
    /\ op = "none"
    /\ argStart \in CalendarDates
    /\ argStop = DefaultDate
    /\ argAmount = 0
    /\ ret = DefaultDate
    /\ retBool = FALSE
    /\ status = "returned"
    /\ lastSet = "none"
    /\ everAccepted = FALSE
    /\ calledHoliday = {}
    /\ calledRecurring = {}
    /\ frames = NoFrames

\* bool isValidDate(const Date&) on the date
Calendar_isValidDate ==
    /\ op = "none"
    /\ op' = "isValidDate"
    /\ retBool' = isValidDate(argStart)
    /\ UNCHANGED <<workday_start_, workday_stop_, workday_duration_, holidays_,
                   recurring_holidays_, argStart, argStop, argAmount, ret, status,
                   lastSet, everAccepted, calledHoliday, calledRecurring, frames>>

\* void addDay(Date&) on a copy of the date
Calendar_addDay ==
    /\ op = "none"
    /\ op' = "addDay"
    /\ ret' = addDay(argStart)
    /\ UNCHANGED <<workday_start_, workday_stop_, workday_duration_, holidays_,
                   recurring_holidays_, argStart, argStop, argAmount, retBool, status,
                   lastSet, everAccepted, calledHoliday, calledRecurring, frames>>

\* void removeDay(Date&) on a copy of the date
Calendar_removeDay ==
    /\ op = "none"
    /\ op' = "removeDay"
    /\ ret' = removeDay(argStart)
    /\ UNCHANGED <<workday_start_, workday_stop_, workday_duration_, holidays_,
                   recurring_holidays_, argStart, argStop, argAmount, retBool, status,
                   lastSet, everAccepted, calledHoliday, calledRecurring, frames>>

\* void removeDay(Date&) on the Date that addDay has just updated
Calendar_removeDayAfterAddDay ==
    /\ op = "addDay"
    /\ op' = "addDay;removeDay"
    /\ ret' = removeDay(ret)
    /\ UNCHANGED <<workday_start_, workday_stop_, workday_duration_, holidays_,
                   recurring_holidays_, argStart, argStop, argAmount, retBool, status,
                   lastSet, everAccepted, calledHoliday, calledRecurring, frames>>

CalendarNext ==
    \/ Calendar_isValidDate
    \/ Calendar_addDay
    \/ Calendar_removeDay
    \/ Calendar_removeDayAfterAddDay

CalendarSpec == CalendarInit /\ [][CalendarNext]_vars

\* ------------------------------------------------------------------------
\* Two threads on one engine: one runs getWorkdayIncrement, the other
\* setWorkdayStartAndStop.  setWorkdayStartAndStop holds mtx_ from its first
\* statement to its return; getWorkdayIncrement does not lock mtx_, so its
\* statements interleave with those of the other thread.  A step of
\* getWorkdayIncrement holds at most one access to the configuration: the
\* test of one pointer, the load of a pointer for a call through it
\* (workday_stop_->...), or the read of hour_ or of minute_ of the Date behind
\* the loaded pointer inside getTime(), getHours() or getMinutes().  A step of
\* setWorkdayStartAndStop holds one operation on the memory the other thread
\* can read: operator new, the write of hour_ or minute_ by the constructor,
\* the store of the new pointer into the unique_ptr, or the delete of the Date
\* the unique_ptr held before (unique_ptr::operator= stores first and deletes
\* then).
\*
\* Every int that a step computes with is hour_ or minute_ of a Date that the
\* program has constructed from a clock time, or the 0 the allocator clears
\* its data to, so that 60 * hour + minute and the sums and differences of
\* minutes stay far inside the range of int.  A read that yields the
\* allocator's data yields any int; what the call computes from it, wrapped
\* products and sums included, is any result: the call ends as Undefined.
\* ------------------------------------------------------------------------
ConcurrentSetArgs ==
    { <<Date(2004, 1, 1, 10, 0), Date(2004, 1, 1, 18, 0)>>,
      <<Date(2004, 1, 1, 9, 0), Date(2004, 1, 1, 13, 0)>>,
      <<Date(2024, -5, 20, 8, 0), Date(2004, 1, 1, 16, 0)>>,
      <<Date(2004, 1, 1, 8, 0), Date(-2024, 5, 20, 17, 0)>> }

ConcurrentStartDates ==
    { Date(2024, 2, 28, 15, 7), Date(2024, 5, 11, 9, 0), Date(2024, 7, 3, 18, 3),
      Date(2024, 7, 3, 8, 0), Date(2023, 2, 29, 9, 0) }

ConcurrentAmounts == {0, 2, 4, 6, -2, -4}

\* no pointer is loaded for a call through it
NoPointer == [var |-> "none"]

\* The outcome of a getWorkdayIncrement call that has computed with the
\* allocator's data, which is any int: it returns a date made from that int,
\* it does not return, or the process is killed.  ret has no meaning then.
Undefined == [status |-> "undefined", ret |-> DefaultDate]

\* hour_ and minute_ of a Date in memory, the two members that
\* getWorkdayIncrement reads through workday_start_, workday_stop_ and
\* workday_duration_.  allocator names the members over which the allocator
\* has written its own data since the program last wrote them.
Memory(date) == [hour |-> date.hour, minute |-> date.minute, allocator |-> {}]

\* operator delete on the memory of a Date: the allocator leaves a member as
\* it is or writes its data over it (glibc writes a link to the next free
\* chunk over year_ and month_ and a number drawn at random when the process
\* starts over day_ and hour_)
operator_delete(memory) ==
    { [memory EXCEPT !.allocator = members] : members \in SUBSET {"hour", "minute"} }

\* operator new that hands out memory freed before: the allocator leaves it
\* as it is or clears its data in it (glibc clears the number over day_ and
\* hour_); the constructor has not run
operator_new(memory) ==
    { memory, [memory EXCEPT !.hour = 0, !.allocator = @ \ {"hour"}] }

\* the constructor's write of a member of the Date in memory
Constructed(memory, member, value) ==
    [memory EXCEPT ![member] = value, !.allocator = @ \ {member}]

\* the engine holds the accepted configuration 08:00 - 16:00; both calls have
\* been made and neither has run its first statement.  heap is the memory of
\* the Dates, named after the Date first allocated in it; at is the memory
\* each non-null member points to.
ConcurrentInit ==
    /\ workday_start_ = make_unique(Date(2004, 1, 1, 8, 0))
    /\ workday_stop_ = make_unique(Date(2004, 1, 1, 16, 0))
    /\ workday_duration_ = updateWorkingDuration(Date(2004, 1, 1, 8, 0),
                                                 Date(2004, 1, 1, 16, 0))
    /\ \E h \in {{}, {Date(2024, 7, 4, 0, 0)}} :
          /\ holidays_ = {getDate(d) : d \in h}
          /\ calledHoliday = {<<d.year, d.month, d.day>> : d \in h}
    /\ recurring_holidays_ = {}
    /\ calledRecurring = {}
    /\ op = "getWorkdayIncrement"
    /\ argStart \in ConcurrentStartDates
    /\ argAmount \in ConcurrentAmounts
    /\ argStop = DefaultDate
    /\ ret = DefaultDate
    /\ retBool = FALSE
    /\ status = "running"
    /\ lastSet = "accepted"
    /\ everAccepted = TRUE
    /\ \E a \in ConcurrentSetArgs :
          frames = [pc |-> "threads",
                    get |-> "call", set |-> "call", mtx_ |-> "free",
                    start |-> a[1], stop |-> a[2],
                    at |-> [start |-> "oldStart", stop |-> "oldStop",
                            duration |-> "oldDuration"],
                    heap |-> [oldStart |-> Memory(workday_start_[1]),
                              oldStop |-> Memory(workday_stop_[1]),
                              oldDuration |-> Memory(workday_duration_[1]),
                              newStart |-> Memory(DefaultDate)],
                    ptr |-> NoPointer, pending |-> {}, hours |-> 0, minutes |-> 0,
                    current |-> DefaultDate, workDays |-> 0, remaining_minutes |-> 0,
                    stop_minutes |-> 0, start_minutes |-> 0,
                    readAbsent |-> FALSE, readFreed |-> FALSE,
                    before |-> CHOOSE o \in getWorkdayIncrementOutcomes(argStart, argAmount) :
                                   TRUE]

GetRuns == frames.pc = "threads" /\ status = "running"
SetRuns == frames.pc = "threads" /\ status # "aborted"

\* the unique_ptr member of the engine that a statement of getWorkdayIncrement, of
\* addRemainingMinutes or of removeRemainingMinutes reads
Pointer(var) ==
    CASE var = "start" -> workday_start_
      [] var = "stop" -> workday_stop_
      [] var = "duration" -> workday_duration_

\* the member read at each place of the getWorkdayIncrement call: the
\* duration, the clock of the "move to first workday" loop (stop when
\* decrementing, start otherwise), stop_minutes, start_minutes, and the clock
\* that addRemainingMinutes (start) or removeRemainingMinutes (stop) sets
PointerAt(get) ==
    CASE get = "duration" -> "duration"
      [] get = "alignClock" -> IF argAmount < 0 THEN "stop" ELSE "start"
      [] get = "stopMinutes" -> "stop"
      [] get = "startMinutes" -> "start"
      [] get = "snapClock" -> IF argAmount < 0 THEN "stop" ELSE "start"

\* a pointer to a Date is loaded and the call through it has not returned
Loaded == frames.ptr.var # "none" /\ frames.ptr.chunk # "null"

\* the Date behind the loaded pointer has been deleted by the other thread
\* since the load
ReadsFreed == Loaded /\ frames.ptr.dangling

\* frames after the delete of the Date in chunk: the memory is the
\* allocator's, and a pointer the other thread has loaded to it dangles
AfterDelete(chunk, memory) ==
    [frames EXCEPT
        !.heap[chunk] = memory,
        !.ptr = IF Loaded /\ frames.ptr.chunk = chunk
                THEN [@ EXCEPT !.dangling = TRUE] ELSE @]

\* hour_ ("hour") or minute_ ("minute") behind the loaded pointer.  The read
\* of a deleted Date is undefined: it yields what the memory holds, which is
\* what the Date held, what the constructor of a Date allocated there since
\* has written, or the allocator's data (see Get_ReadAllocatorData).
ReadField(field) == frames.heap[frames.ptr.chunk][field]

\* setWorkdayStartAndStop takes the accepting branch
Accepts == isValidDate(frames.start) /\ isValidDate(frames.stop)

\* getWorkdayIncrement: isValidDate(startDate)
Get_CheckArguments ==
    /\ GetRuns /\ frames.get = "call"
    /\ IF ~isValidDate(argStart)
       THEN /\ ret' = generateInvalidDate
            /\ status' = "returned"
            /\ frames' = [frames EXCEPT !.get = "done"]
       ELSE /\ frames' = [frames EXCEPT !.get = "checkStart"]
            /\ UNCHANGED <<ret, status>>
    /\ UNCHANGED <<workday_start_, workday_stop_, workday_duration_, holidays_,
                   recurring_holidays_, op, argStart, argStop, argAmount, retBool,
                   lastSet, everAccepted, calledHoliday, calledRecurring>>

\* getWorkdayIncrement: one operand of
\* !workday_start_ || !workday_stop_ || !workday_duration_, and after the
\* last one Date current = startDate
Get_CheckPointer ==
    /\ GetRuns /\ frames.get \in {"checkStart", "checkStop", "checkDuration"}
    /\ LET var == CASE frames.get = "checkStart" -> "start"
                    [] frames.get = "checkStop" -> "stop"
                    [] frames.get = "checkDuration" -> "duration"
       IN IF Pointer(var) = nullptr
          THEN /\ ret' = generateInvalidDate
               /\ status' = "returned"
               /\ frames' = [frames EXCEPT !.get = "done"]
          ELSE /\ frames' =
                      CASE var = "start" -> [frames EXCEPT !.get = "checkStop"]
                        [] var = "stop" -> [frames EXCEPT !.get = "checkDuration"]
                        [] var = "duration" -> [frames EXCEPT !.get = "duration",
                                                              !.pending = {"hour", "minute"},
                                                              !.current = argStart]
               /\ UNCHANGED <<ret, status>>
    /\ UNCHANGED <<workday_start_, workday_stop_, workday_duration_, holidays_,
                   recurring_holidays_, op, argStart, argStop, argAmount, retBool,
                   lastSet, everAccepted, calledHoliday, calledRecurring>>

\* the load of the pointer in workday_duration_->getTime(),
\* workday_stop_->getHours() and the like.  getTime() reads hour_ and minute_
\* through the one pointer loaded for it; the two arguments
\* ...->getHours(), ...->getMinutes() of a setDate call are two calls, each
\* with its own load, evaluated in either order.
Get_LoadPointer ==
    /\ GetRuns
    /\ frames.get \in {"duration", "alignClock", "stopMinutes", "startMinutes", "snapClock"}
    /\ frames.ptr.var = "none"
    /\ \E field \in IF frames.get \in {"alignClock", "snapClock"}
                    THEN frames.pending ELSE {"time"} :
          frames' = [frames EXCEPT
              !.ptr = [var |-> PointerAt(frames.get), field |-> field,
                       chunk |-> IF Pointer(PointerAt(frames.get)) = nullptr
                                 THEN "null"
                                 ELSE frames.at[PointerAt(frames.get)],
                       dangling |-> FALSE]]
    /\ UNCHANGED <<workday_start_, workday_stop_, workday_duration_, holidays_,
                   recurring_holidays_, op, argStart, argStop, argAmount, ret, retBool,
                   status, lastSet, everAccepted, calledHoliday, calledRecurring>>

\* a call through a pointer that was loaded as nullptr: the read of the
\* member kills the process
Get_ReadThroughNull ==
    /\ GetRuns
    /\ frames.ptr.var # "none"
    /\ frames.ptr.chunk = "null"
    /\ status' = Aborted.status
    /\ ret' = Aborted.ret
    /\ frames' = [frames EXCEPT !.get = "done", !.ptr = NoPointer, !.readAbsent = TRUE]
    /\ UNCHANGED <<workday_start_, workday_stop_, workday_duration_, holidays_,
                   recurring_holidays_, op, argStart, argStop, argAmount, retBool,
                   lastSet, everAccepted, calledHoliday, calledRecurring>>

\* the members that the call through the loaded pointer has still to read:
\* getTime() reads hour_ and minute_ (std::make_tuple(hour_, minute_), in
\* either order), getHours() hour_, getMinutes() minute_
ReadableFields ==
    IF frames.ptr.field = "time" THEN frames.pending ELSE {frames.ptr.field}

\* those of them that hold what the program has written
WrittenFields ==
    { field \in ReadableFields : field \notin frames.heap[frames.ptr.chunk].allocator }

\* the read of a member of a deleted Date over which the allocator has
\* written its data: the call goes on with any int in hours or minutes
Get_ReadAllocatorData ==
    /\ GetRuns /\ Loaded
    /\ \E field \in ReadableFields :
          field \in frames.heap[frames.ptr.chunk].allocator
    /\ status' = Undefined.status
    /\ ret' = Undefined.ret
    /\ frames' = [frames EXCEPT !.get = "done", !.ptr = NoPointer, !.pending = {},
                                !.hours = 0, !.minutes = 0, !.readFreed = TRUE]
    /\ UNCHANGED <<workday_start_, workday_stop_, workday_duration_, holidays_,
                   recurring_holidays_, op, argStart, argStop, argAmount, retBool,
                   lastSet, everAccepted, calledHoliday, calledRecurring>>

\* frames after the read of a member behind the loaded pointer: the value is
\* kept in hours or minutes; the pointer is dropped when its call returns
AfterFieldRead(field) ==
    [frames EXCEPT
        !.hours = IF field = "hour" THEN ReadField(field) ELSE @,
        !.minutes = IF field = "minute" THEN ReadField(field) ELSE @,
        !.pending = @ \ {field},
        !.readFreed = @ \/ ReadsFreed,
        !.ptr = IF frames.ptr.field = "time" /\ frames.pending # {field}
                THEN @ ELSE NoPointer]

\* getWorkdayIncrement: workdayInMinutes = convertToMinutes(workday_duration_->getTime()),
\* workDay_IncrementInMinutes and the two divisions.  With workdayInMinutes = 0
\* the divisions divide by zero: the process is killed, or the division
\* yields 0 and the remainder the dividend, and the call goes on.
Get_ReadDuration ==
    /\ GetRuns /\ frames.get = "duration" /\ Loaded
    /\ \E field \in WrittenFields :
          LET read == AfterFieldRead(field)
              absq == IF argAmount < 0 THEN -argAmount ELSE argAmount
              workdayInMinutes == convertToMinutes(<<read.hours, read.minutes>>)
              workDay_IncrementInMinutes == IncrementInMinutes(absq, workdayInMinutes)
          IN IF read.pending # {}
             THEN /\ frames' = read
                  /\ UNCHANGED <<ret, status>>
             ELSE \/ /\ workdayInMinutes = 0
                     /\ status' = Aborted.status
                     /\ ret' = Aborted.ret
                     /\ frames' = [read EXCEPT !.get = "done", !.hours = 0, !.minutes = 0]
                  \/ /\ frames' = [read EXCEPT
                            !.get = "align", !.hours = 0, !.minutes = 0,
                            !.workDays =
                                IF workdayInMinutes = 0 THEN 0
                                ELSE CDiv(workDay_IncrementInMinutes, workdayInMinutes),
                            !.remaining_minutes =
                                IF workdayInMinutes = 0 THEN workDay_IncrementInMinutes
                                ELSE CRem(workDay_IncrementInMinutes, workdayInMinutes)]
                     /\ UNCHANGED <<ret, status>>
    /\ UNCHANGED <<workday_start_, workday_stop_, workday_duration_, holidays_,
                   recurring_holidays_, op, argStart, argStop, argAmount, retBool,
                   lastSet, everAccepted, calledHoliday, calledRecurring>>

\* getWorkdayIncrement: the test of while (calendar_->isHoliday(current)).  On
\* a holiday removeDay or addDay; on a working day the loops over the work
\* weeks and the remaining workdays, which read no start, stop or duration.
Get_AlignTest ==
    /\ GetRuns /\ frames.get = "align"
    /\ IF isHoliday(frames.current)
       THEN frames' = [frames EXCEPT
                !.get = "alignClock",
                !.pending = {"hour", "minute"},
                !.current = IF argAmount < 0 THEN removeDay(@) ELSE addDay(@)]
       ELSE LET workWeeks == CDiv(frames.workDays, WORKWEEK_DURATION)
                afterWeeks == WorkWeeksLoop(frames.current, argAmount < 0, workWeeks)
                remainingWorkDays == CRem(frames.workDays, WORKWEEK_DURATION)
                afterDays == RemainingWorkDaysLoop(afterWeeks, argAmount < 0,
                                                   remainingWorkDays)
            IN frames' = [frames EXCEPT !.get = "stopMinutes",
                                        !.pending = {"hour", "minute"},
                                        !.current = afterDays]
    /\ UNCHANGED <<workday_start_, workday_stop_, workday_duration_, holidays_,
                   recurring_holidays_, op, argStart, argStop, argAmount, ret, retBool,
                   status, lastSet, everAccepted, calledHoliday, calledRecurring>>

\* frames after getHours() or getMinutes() through the loaded pointer has
\* returned for an argument of current.setDate(...); with both arguments
\* evaluated setDate runs and the call goes on at the place next
AfterClockRead(field, next) ==
    LET read == AfterFieldRead(field)
    IN IF read.pending = {}
       THEN [read EXCEPT
                !.get = next, !.hours = 0, !.minutes = 0,
                !.current = setDate(@.year, @.month, @.day, read.hours, read.minutes)]
       ELSE read

\* getWorkdayIncrement: workday_stop_->getHours(), workday_stop_->getMinutes()
\* (workday_start_ when incrementing) and current.setDate(...) in the loop
Get_ReadAlignClock ==
    /\ GetRuns /\ frames.get = "alignClock" /\ Loaded
    /\ \E field \in WrittenFields :
          frames' = AfterClockRead(field, "align")
    /\ UNCHANGED <<workday_start_, workday_stop_, workday_duration_, holidays_,
                   recurring_holidays_, op, argStart, argStop, argAmount, ret, retBool,
                   status, lastSet, everAccepted, calledHoliday, calledRecurring>>

\* addRemainingMinutes, removeRemainingMinutes:
\* stop_minutes = convertToMinutes(workday_stop_->getTime())
Get_ReadStopMinutes ==
    /\ GetRuns /\ frames.get = "stopMinutes" /\ Loaded
    /\ \E field \in WrittenFields :
          LET read == AfterFieldRead(field)
          IN frames' = IF read.pending # {} THEN read
                       ELSE [read EXCEPT
                                !.get = "startMinutes",
                                !.pending = {"hour", "minute"},
                                !.hours = 0, !.minutes = 0,
                                !.stop_minutes =
                                    convertToMinutes(<<read.hours, read.minutes>>)]
    /\ UNCHANGED <<workday_start_, workday_stop_, workday_duration_, holidays_,
                   recurring_holidays_, op, argStart, argStop, argAmount, ret, retBool,
                   status, lastSet, everAccepted, calledHoliday, calledRecurring>>

\* addRemainingMinutes, removeRemainingMinutes:
\* start_minutes = convertToMinutes(workday_start_->getTime()), current_minutes
\* and the tests of current_minutes against stop_minutes and start_minutes,
\* with the incrementWorkDay call of the branch taken
Get_ReadStartMinutes ==
    /\ GetRuns /\ frames.get = "startMinutes" /\ Loaded
    /\ \E field \in WrittenFields :
          LET read == AfterFieldRead(field)
              decrement == argAmount < 0
              stop_minutes == frames.stop_minutes
              start_minutes == convertToMinutes(<<read.hours, read.minutes>>)
              current_minutes == convertToMinutes(getTime(frames.current))
              stepsDay == IF decrement
                          THEN current_minutes < stop_minutes
                               /\ current_minutes < start_minutes
                          ELSE current_minutes >= stop_minutes
              setsClock == current_minutes >= stop_minutes
                           \/ current_minutes < start_minutes
          IN frames' = IF read.pending # {} THEN read
                       ELSE [read EXCEPT
                                !.get = IF setsClock THEN "snapClock" ELSE "minutes",
                                !.pending = IF setsClock THEN {"hour", "minute"} ELSE {},
                                !.hours = 0, !.minutes = 0,
                                !.start_minutes = start_minutes,
                                !.current = IF stepsDay THEN incrementWorkDay(@, decrement)
                                            ELSE @]
    /\ UNCHANGED <<workday_start_, workday_stop_, workday_duration_, holidays_,
                   recurring_holidays_, op, argStart, argStop, argAmount, ret, retBool,
                   status, lastSet, everAccepted, calledHoliday, calledRecurring>>

\* addRemainingMinutes: workday_start_->getHours(), workday_start_->getMinutes()
\* and current.setDate(...); removeRemainingMinutes: the same with workday_stop_
Get_ReadSnapClock ==
    /\ GetRuns /\ frames.get = "snapClock" /\ Loaded
    /\ \E field \in WrittenFields :
          frames' = AfterClockRead(field, "minutes")
    /\ UNCHANGED <<workday_start_, workday_stop_, workday_duration_, holidays_,
                   recurring_holidays_, op, argStart, argStop, argAmount, ret, retBool,
                   status, lastSet, everAccepted, calledHoliday, calledRecurring>>

\* addRemainingMinutes from "If adding minutes keeps the time within workday
\* limits" on, for the stop_minutes and start_minutes it has read
addWithinLimits(minutes, current, stop_minutes, start_minutes) ==
    LET current_minutes == convertToMinutes(getTime(current))
    IN IF (current_minutes + minutes) <= stop_minutes
       THEN LET hm == addMinutes(current_minutes, minutes)
            IN setDate(current.year, current.month, current.day, hm[1], hm[2])
       ELSE LET next == incrementWorkDay(current, FALSE)
                remaining_minutes == (current_minutes + minutes) - stop_minutes
                hm == addMinutes(start_minutes, remaining_minutes)
            IN setDate(next.year, next.month, next.day, hm[1], hm[2])

\* removeRemainingMinutes from "If subtracting minutes keeps the time within
\* workday limits" on, for the stop_minutes and start_minutes it has read
subtractWithinLimits(minutes, current, stop_minutes, start_minutes) ==
    LET current_minutes == convertToMinutes(getTime(current))
    IN IF (current_minutes - minutes) >= start_minutes
       THEN LET hm == subtractMinutes(current_minutes, minutes)
            IN setDate(current.year, current.month, current.day, hm[1], hm[2])
       ELSE LET prev == incrementWorkDay(current, TRUE)
                remaining_minutes == start_minutes - (current_minutes - minutes)
                hm == subtractMinutes(stop_minutes, remaining_minutes)
            IN setDate(prev.year, prev.month, prev.day, hm[1], hm[2])

\* the rest of addRemainingMinutes or removeRemainingMinutes, which reads no
\* start and no stop, and return current
Get_RemainingMinutesAndReturn ==
    /\ GetRuns /\ frames.get = "minutes"
    /\ ret' = IF argAmount < 0
              THEN subtractWithinLimits(frames.remaining_minutes, frames.current,
                                        frames.stop_minutes, frames.start_minutes)
              ELSE addWithinLimits(frames.remaining_minutes, frames.current,
                                   frames.stop_minutes, frames.start_minutes)
    /\ status' = "returned"
    /\ frames' = [frames EXCEPT !.get = "done"]
    /\ UNCHANGED <<workday_start_, workday_stop_, workday_duration_, holidays_,
                   recurring_holidays_, op, argStart, argStop, argAmount, retBool,
                   lastSet, everAccepted, calledHoliday, calledRecurring>>

\* setWorkdayStartAndStop: std::lock_guard<std::mutex> lock(mtx_)
Set_Lock ==
    /\ SetRuns /\ frames.set = "call" /\ frames.mtx_ = "free"
    /\ frames' = [frames EXCEPT !.set = "locked", !.mtx_ = "held"]
    /\ UNCHANGED <<workday_start_, workday_stop_, workday_duration_, holidays_,
                   recurring_holidays_, op, argStart, argStop, argAmount, ret, retBool,
                   status, lastSet, everAccepted, calledHoliday, calledRecurring>>

\* setWorkdayStartAndStop, accepting branch: std::make_unique<Date>(start...),
\* operator new and the constructor, in memory that no other thread has a
\* pointer to
Set_NewStart ==
    /\ SetRuns /\ frames.set = "locked" /\ Accepts
    /\ frames' = [frames EXCEPT !.set = "startMade",
                                !.heap.newStart = Memory(frames.start)]
    /\ UNCHANGED <<workday_start_, workday_stop_, workday_duration_, holidays_,
                   recurring_holidays_, op, argStart, argStop, argAmount, ret, retBool,
                   status, lastSet, everAccepted, calledHoliday, calledRecurring>>

\* setWorkdayStartAndStop: workday_start_ = ... of the branch taken, the store
\* of the new Date or of nullptr into the unique_ptr
Set_StoreStart ==
    /\ SetRuns
    /\ \/ frames.set = "startMade"
       \/ frames.set = "locked" /\ ~Accepts
    /\ workday_start_' = StoredAfterSet(frames.start, frames.stop).start
    /\ frames' = [frames EXCEPT
           !.set = "startStored",
           !.at.start = IF Accepts THEN "newStart" ELSE @]
    /\ UNCHANGED <<workday_stop_, workday_duration_, holidays_,
                   recurring_holidays_, op, argStart, argStop, argAmount, ret, retBool,
                   status, lastSet, everAccepted, calledHoliday, calledRecurring>>

\* the delete of the Date workday_start_ held before the store
Set_DeleteStart ==
    /\ SetRuns /\ frames.set = "startStored"
    /\ \E memory \in operator_delete(frames.heap.oldStart) :
          frames' = [AfterDelete("oldStart", memory) EXCEPT !.set = "startAssigned"]
    /\ UNCHANGED <<workday_start_, workday_stop_, workday_duration_, holidays_,
                   recurring_holidays_, op, argStart, argStop, argAmount, ret, retBool,
                   status, lastSet, everAccepted, calledHoliday, calledRecurring>>

\* setWorkdayStartAndStop, accepting branch: operator new of
\* std::make_unique<Date>(stop...), which hands out the memory freed last,
\* that of the Date workday_start_ held
Set_NewStop ==
    /\ SetRuns /\ frames.set = "startAssigned" /\ Accepts
    /\ \E memory \in operator_new(frames.heap.oldStart) :
          frames' = [frames EXCEPT !.set = "stopAllocated", !.heap.oldStart = memory]
    /\ UNCHANGED <<workday_start_, workday_stop_, workday_duration_, holidays_,
                   recurring_holidays_, op, argStart, argStop, argAmount, ret, retBool,
                   status, lastSet, everAccepted, calledHoliday, calledRecurring>>

\* Date::Date(year, month, day, hour, minute) for the new stop: hour_(hour),
\* then minute_(minute)
Set_ConstructStop ==
    /\ SetRuns /\ frames.set \in {"stopAllocated", "stopHour"}
    /\ frames' = IF frames.set = "stopAllocated"
                 THEN [frames EXCEPT
                          !.set = "stopHour",
                          !.heap.oldStart = Constructed(@, "hour", frames.stop.hour)]
                 ELSE [frames EXCEPT
                          !.set = "stopMade",
                          !.heap.oldStart = Constructed(@, "minute", frames.stop.minute)]
    /\ UNCHANGED <<workday_start_, workday_stop_, workday_duration_, holidays_,
                   recurring_holidays_, op, argStart, argStop, argAmount, ret, retBool,
                   status, lastSet, everAccepted, calledHoliday, calledRecurring>>

\* setWorkdayStartAndStop: workday_stop_ = ... of the branch taken, the store
\* of the new Date or of nullptr into the unique_ptr
Set_StoreStop ==
    /\ SetRuns
    /\ \/ frames.set = "stopMade"
       \/ frames.set = "startAssigned" /\ ~Accepts
    /\ workday_stop_' = StoredAfterSet(frames.start, frames.stop).stop
    /\ frames' = [frames EXCEPT
           !.set = "stopStored",
           !.at.stop = IF Accepts THEN "oldStart" ELSE @]
    /\ UNCHANGED <<workday_start_, workday_duration_, holidays_,
                   recurring_holidays_, op, argStart, argStop, argAmount, ret, retBool,
                   status, lastSet, everAccepted, calledHoliday, calledRecurring>>

\* the delete of the Date workday_stop_ held before the store
Set_DeleteStop ==
    /\ SetRuns /\ frames.set = "stopStored"
    /\ \E memory \in operator_delete(frames.heap.oldStop) :
          frames' = [AfterDelete("oldStop", memory) EXCEPT !.set = "stopAssigned"]
    /\ UNCHANGED <<workday_start_, workday_stop_, workday_duration_, holidays_,
                   recurring_holidays_, op, argStart, argStop, argAmount, ret, retBool,
                   status, lastSet, everAccepted, calledHoliday, calledRecurring>>

\* updateWorkingDuration: subtractTime on the Dates just stored and operator
\* new of std::make_unique<Date>(0, 0, 0, hours, mins), which hands out the
\* memory freed last, that of the Date workday_stop_ held
Set_NewDuration ==
    /\ SetRuns /\ frames.set = "stopAssigned" /\ Accepts
    /\ \E memory \in operator_new(frames.heap.oldStop) :
          frames' = [frames EXCEPT !.set = "durationAllocated", !.heap.oldStop = memory]
    /\ UNCHANGED <<workday_start_, workday_stop_, workday_duration_, holidays_,
                   recurring_holidays_, op, argStart, argStop, argAmount, ret, retBool,
                   status, lastSet, everAccepted, calledHoliday, calledRecurring>>

\* Date::Date(0, 0, 0, hours, mins) for the new duration: hour_(hour), then
\* minute_(minute)
Set_ConstructDuration ==
    /\ SetRuns /\ frames.set \in {"durationAllocated", "durationHour"}
    /\ LET duration == updateWorkingDuration(workday_start_[1], workday_stop_[1])[1]
       IN frames' = IF frames.set = "durationAllocated"
                    THEN [frames EXCEPT
                             !.set = "durationHour",
                             !.heap.oldStop = Constructed(@, "hour", duration.hour)]
                    ELSE [frames EXCEPT
                             !.set = "durationMade",
                             !.heap.oldStop = Constructed(@, "minute", duration.minute)]
    /\ UNCHANGED <<workday_start_, workday_stop_, workday_duration_, holidays_,
                   recurring_holidays_, op, argStart, argStop, argAmount, ret, retBool,
                   status, lastSet, everAccepted, calledHoliday, calledRecurring>>

\* updateWorkingDuration: workday_duration_ = ..., the store of the new Date
\* into the unique_ptr
Set_StoreDuration ==
    /\ SetRuns /\ frames.set = "durationMade"
    /\ workday_duration_' = updateWorkingDuration(workday_start_[1], workday_stop_[1])
    /\ frames' = [frames EXCEPT !.set = "durationStored", !.at.duration = "oldStop"]
    /\ UNCHANGED <<workday_start_, workday_stop_, holidays_,
                   recurring_holidays_, op, argStart, argStop, argAmount, ret, retBool,
                   status, lastSet, everAccepted, calledHoliday, calledRecurring>>

\* the delete of the Date workday_duration_ held before the store
Set_DeleteDuration ==
    /\ SetRuns /\ frames.set = "durationStored"
    /\ \E memory \in operator_delete(frames.heap.oldDuration) :
          frames' = [AfterDelete("oldDuration", memory) EXCEPT !.set = "durationAssigned"]
    /\ UNCHANGED <<workday_start_, workday_stop_, workday_duration_, holidays_,
                   recurring_holidays_, op, argStart, argStop, argAmount, ret, retBool,
                   status, lastSet, everAccepted, calledHoliday, calledRecurring>>

\* setWorkdayStartAndStop: the return of the branch taken, which releases mtx_
Set_Return ==
    /\ SetRuns
    /\ \/ frames.set = "durationAssigned"
       \/ frames.set = "stopAssigned" /\ ~Accepts
    /\ lastSet' = IF Accepts THEN "accepted" ELSE "rejected"
    /\ frames' = [frames EXCEPT !.set = "done", !.mtx_ = "free"]
    /\ UNCHANGED <<workday_start_, workday_stop_, workday_duration_, holidays_,
                   recurring_holidays_, op, argStart, argStop, argAmount, ret, retBool,
                   status, everAccepted, calledHoliday, calledRecurring>>

ConcurrentNext ==
    \/ Get_CheckArguments
    \/ Get_CheckPointer
    \/ Get_LoadPointer
    \/ Get_ReadThroughNull
    \/ Get_ReadAllocatorData
    \/ Get_ReadDuration
    \/ Get_AlignTest
    \/ Get_ReadAlignClock
    \/ Get_ReadStopMinutes
    \/ Get_ReadStartMinutes
    \/ Get_ReadSnapClock
    \/ Get_RemainingMinutesAndReturn
    \/ Set_Lock
    \/ Set_NewStart
    \/ Set_StoreStart
    \/ Set_DeleteStart
    \/ Set_NewStop
    \/ Set_ConstructStop
    \/ Set_StoreStop
    \/ Set_DeleteStop
    \/ Set_NewDuration
    \/ Set_ConstructDuration
    \/ Set_StoreDuration
    \/ Set_DeleteDuration
    \/ Set_Return

ConcurrentSpec == ConcurrentInit /\ [][ConcurrentNext]_vars

\* ------------------------------------------------------------------------
\* getWorkdayIncrement step by step: one step per iteration of its "move to
\* first workday" loop, so that a run of the loop is a behaviour.  The engine
\* holds an accepted configuration and holiday sets built by setHoliday and
\* setRecurringHoliday calls with valid dates.
\* ------------------------------------------------------------------------
\* the <<month, day>> of every valid date of the leap year 2024: the recurring
\* set after setRecurringHoliday has been called with each of them
EveryDayOfYear ==
    { <<m, d>> \in (1..12) \X (1..31) : isValidDate(Date(2024, m, d, 0, 0)) }

StepwiseStartDates ==
    { Date(2024, 7, 3, 9, 0), Date(2024, 7, 4, 9, 0), Date(2024, 5, 11, 9, 0),
      Date(2024, 12, 30, 15, 7) }

StepwiseAmounts == {0, 2, 4, -4, 4 * MaxWholeDays, 2 - 4 * MaxWholeDays}

StepwiseInit ==
    /\ workday_start_ = make_unique(Date(2004, 1, 1, 8, 0))
    /\ workday_stop_ = make_unique(Date(2004, 1, 1, 16, 0))
    /\ workday_duration_ = updateWorkingDuration(Date(2004, 1, 1, 8, 0),
                                                 Date(2004, 1, 1, 16, 0))
    /\ \E h \in {{}, {Date(2024, 7, 4, 0, 0)}} :
          /\ holidays_ = {getDate(d) : d \in h}
          /\ calledHoliday = {<<d.year, d.month, d.day>> : d \in h}
    /\ \/ /\ recurring_holidays_ \in {{}, {<<12, 25>>}}
          /\ argStart \in StepwiseStartDates
          /\ argAmount \in StepwiseAmounts
       \/ /\ recurring_holidays_ = EveryDayOfYear
          /\ holidays_ = {}
          /\ argStart = Date(2024, 5, 11, 9, 0)
          /\ argAmount \in {2, 2 - 4 * MaxWholeDays}
    /\ calledRecurring = recurring_holidays_
    /\ op = "getWorkdayIncrement"
    /\ argStop = DefaultDate
    /\ ret = DefaultDate
    /\ retBool = FALSE
    /\ status = "running"
    /\ lastSet = "accepted"
    /\ everAccepted = TRUE
    /\ frames = [pc |-> "call", current |-> argStart, workDays |-> 0, workWeeks |-> 0,
                 i |-> 0, remainingWorkDays |-> 0, remaining_minutes |-> 0]

\* The year of current is an int that addDay and removeDay count up or down
\* for as long as the loop runs.  The loop looks at that year in three places
\* only: isLeapYear (year % 4, year % 100, year % 400), dayOfWeek
\* (y + y / 4 - y / 100 + y / 400) and the text of getDate that is looked up
\* in holidays_.  The first two repeat every GregorianPeriod years (146097
\* days, a whole number of weeks) among the years BackwardLoopYear tells of,
\* and the third finds nothing in a year later, or earlier, than every date
\* that setHoliday was called with.  Two dates a whole number of periods
\* apart, both beyond those years, are therefore taken alike by isHoliday
\* and taken by addDay and removeDay to dates that are again as far apart:
\* the loop cannot tell them from one another.  The state of the loop is its
\* date up to that equivalence: the year counts exactly through the years of
\* startDate and of holidays_ and through one whole period beyond them, and
\* from there on stands for every year a whole number of periods further on.
\* (The int year itself overflows after 2^31 years, which is undefined; the
\* build wraps it, and the loop goes on.)
GregorianPeriod == 400

\* the years of startDate and of the dates setHoliday was called with
LoopYears == {argStart.year} \cup {called[1] : called \in calledHoliday}

LastLoopYear == CHOOSE year \in LoopYears : \A other \in LoopYears : other <= year

FirstLoopYear == CHOOSE year \in LoopYears : \A other \in LoopYears : year <= other

\* counting down, the years of one period lie below this year: years in
\* which the sum that dayOfWeek takes % 7 of has one sign throughout (the sum
\* is positive from y = 0 on, negative for every y below -37, and the % of
\* C++ takes the sign of the sum)
BackwardLoopYear ==
    IF FirstLoopYear > GregorianPeriod THEN FirstLoopYear ELSE -GregorianPeriod

\* the date that stands for date in the state of the loop
SamePeriodDate(date) ==
    IF date.year > LastLoopYear + GregorianPeriod
    THEN [date EXCEPT !.year = @ - GregorianPeriod]
    ELSE IF date.year < BackwardLoopYear - GregorianPeriod
    THEN [date EXCEPT !.year = @ + GregorianPeriod]
    ELSE date

\* the argument checks, Date current = startDate, and the two divisions
Step_Begin ==
    /\ frames.pc = "call"
    /\ IF ~isValidDate(argStart) \/ workday_start_ = nullptr \/ workday_stop_ = nullptr
          \/ workday_duration_ = nullptr
       THEN /\ ret' = generateInvalidDate
            /\ status' = "returned"
            /\ frames' = [frames EXCEPT !.pc = "done"]
       ELSE LET absq == IF argAmount < 0 THEN -argAmount ELSE argAmount
                workdayInMinutes == convertToMinutes(getTime(workday_duration_[1]))
                workDay_IncrementInMinutes == IncrementInMinutes(absq, workdayInMinutes)
            IN /\ workdayInMinutes # 0
               /\ frames' = [frames EXCEPT
                      !.pc = "align",
                      !.current = argStart,
                      !.workDays = CDiv(workDay_IncrementInMinutes, workdayInMinutes),
                      !.workWeeks = CDiv(CDiv(workDay_IncrementInMinutes, workdayInMinutes),
                                         WORKWEEK_DURATION),
                      !.remaining_minutes =
                          CRem(workDay_IncrementInMinutes, workdayInMinutes)]
               /\ UNCHANGED <<ret, status>>
    /\ UNCHANGED <<workday_start_, workday_stop_, workday_duration_, holidays_,
                   recurring_holidays_, op, argStart, argStop, argAmount, retBool,
                   lastSet, everAccepted, calledHoliday, calledRecurring>>

\* one iteration of while (calendar_->isHoliday(current))
Step_AlignOneDay ==
    /\ frames.pc = "align"
    /\ isHoliday(frames.current)
    /\ LET next == IF argAmount < 0
                   THEN withTime(removeDay(frames.current), workday_stop_[1])
                   ELSE withTime(addDay(frames.current), workday_start_[1])
       IN frames' = [frames EXCEPT !.current = SamePeriodDate(next)]
    /\ UNCHANGED <<workday_start_, workday_stop_, workday_duration_, holidays_,
                   recurring_holidays_, op, argStart, argStop, argAmount, ret, retBool,
                   status, lastSet, everAccepted, calledHoliday, calledRecurring>>

\* the loop has ended on a working day
Step_Aligned ==
    /\ frames.pc = "align"
    /\ ~isHoliday(frames.current)
    /\ frames' = [frames EXCEPT !.pc = "weeks", !.i = 0]
    /\ UNCHANGED <<workday_start_, workday_stop_, workday_duration_, holidays_,
                   recurring_holidays_, op, argStart, argStop, argAmount, ret, retBool,
                   status, lastSet, everAccepted, calledHoliday, calledRecurring>>

\* while (workWeeks-- > 0) incrementWorkWeek(current, decrement): one
\* incrementWorkDay call of the for loop of incrementWorkWeek
Step_WorkDayOfWeek ==
    /\ frames.pc = "weeks"
    /\ frames.workWeeks > 0
    /\ frames' = [frames EXCEPT
           !.current = incrementWorkDay(frames.current, argAmount < 0),
           !.i = IF @ + 1 < WORKWEEK_DURATION THEN @ + 1 ELSE 0,
           !.workWeeks = IF frames.i + 1 < WORKWEEK_DURATION THEN @ ELSE @ - 1]
    /\ UNCHANGED <<workday_start_, workday_stop_, workday_duration_, holidays_,
                   recurring_holidays_, op, argStart, argStop, argAmount, ret, retBool,
                   status, lastSet, everAccepted, calledHoliday, calledRecurring>>

\* int remainingWorkDays = workDays % WORKWEEK_DURATION
Step_WeeksDone ==
    /\ frames.pc = "weeks"
    /\ frames.workWeeks <= 0
    /\ frames' = [frames EXCEPT
           !.pc = "days",
           !.remainingWorkDays = CRem(frames.workDays, WORKWEEK_DURATION)]
    /\ UNCHANGED <<workday_start_, workday_stop_, workday_duration_, holidays_,
                   recurring_holidays_, op, argStart, argStop, argAmount, ret, retBool,
                   status, lastSet, everAccepted, calledHoliday, calledRecurring>>

\* one iteration of while (remainingWorkDays-- > 0) incrementWorkDay(current, decrement)
Step_RemainingWorkDay ==
    /\ frames.pc = "days"
    /\ frames.remainingWorkDays > 0
    /\ frames' = [frames EXCEPT
           !.current = incrementWorkDay(frames.current, argAmount < 0),
           !.remainingWorkDays = @ - 1]
    /\ UNCHANGED <<workday_start_, workday_stop_, workday_duration_, holidays_,
                   recurring_holidays_, op, argStart, argStop, argAmount, ret, retBool,
                   status, lastSet, everAccepted, calledHoliday, calledRecurring>>

\* removeRemainingMinutes or addRemainingMinutes, and return current
Step_RemainingMinutesAndReturn ==
    /\ frames.pc = "days"
    /\ frames.remainingWorkDays <= 0
    /\ ret' = IF argAmount < 0
              THEN removeRemainingMinutes(frames.remaining_minutes, frames.current)
              ELSE addRemainingMinutes(frames.remaining_minutes, frames.current)
    /\ status' = "returned"
    /\ frames' = [frames EXCEPT !.pc = "done"]
    /\ UNCHANGED <<workday_start_, workday_stop_, workday_duration_, holidays_,
                   recurring_holidays_, op, argStart, argStop, argAmount, retBool,
                   lastSet, everAccepted, calledHoliday, calledRecurring>>

StepwiseNext ==
    \/ Step_Begin
    \/ Step_AlignOneDay
    \/ Step_Aligned
    \/ Step_WorkDayOfWeek
    \/ Step_WeeksDone
    \/ Step_RemainingWorkDay
    \/ Step_RemainingMinutesAndReturn

\* the calling thread keeps running: a step that can be taken is taken
StepwiseSpec == StepwiseInit /\ [][StepwiseNext]_vars /\ WF_vars(StepwiseNext)

\* ------------------------------------------------------------------------
\* setWorkdayStartAndStop on its own: sequences of calls with start and stop
\* dates that differ in every field, accepted and rejected
\* ------------------------------------------------------------------------
WorkdayDates ==
    { Date(2024, 5, 20, 8, 0), Date(2024, 5, 20, 17, 0), Date(2004, 1, 1, 16, 0),
      Date(2000, 2, 29, 23, 59), Date(0, 1, 1, 0, 0), Date(2023, 12, 31, 9, 30),
      Date(2024, 6, 1, 9, 29), Date(2024, 6, 1, 0, 1),
      Date(2024, -5, 20, 8, 0), Date(-2024, 5, 20, 17, 0), Date(2023, 2, 29, 9, 0),
      Date(2024, 5, 20, 24, 0) }

WorkdayNext ==
    \/ \E start \in WorkdayDates, stop \in WorkdayDates : setWorkdayStartAndStop(start, stop)
    \/ CallerContinues

WorkdaySpec == Init /\ [][WorkdayNext]_vars

\* ------------------------------------------------------------------------
\* Several threads on one engine, each making one configuration-mutating
\* call.  Every one of the three calls constructs a std::lock_guard on mtx_ as
\* its first statement and releases it when it returns.  frames.thread[t] holds
\* the call of thread t, its arguments and its position; frames.order lists
\* the threads in the order in which they acquired mtx_.
\* ------------------------------------------------------------------------
MaxThreads == 3

Threads == 1..MaxThreads

MutatorCalls ==
    { [call |-> "setWorkdayStartAndStop", start |-> a[1], stop |-> a[2]] :
        a \in ConcurrentSetArgs }
    \cup { [call |-> "setHoliday", start |-> d, stop |-> DefaultDate] :
              d \in {Date(2024, 7, 4, 0, 0), Date(2023, 2, 29, 0, 0)} }
    \cup { [call |-> "setRecurringHoliday", start |-> d, stop |-> DefaultDate] :
              d \in {Date(2024, 12, 25, 0, 0), Date(2004, 2, 29, 12, 0)} }

\* a fresh engine; every thread has made its call and none has run its first
\* statement
MutatorsInit ==
    /\ workday_start_ = nullptr
    /\ workday_stop_ = nullptr
    /\ workday_duration_ = nullptr
    /\ holidays_ = {}
    /\ recurring_holidays_ = {}
    /\ op = "none"
    /\ argStart = DefaultDate
    /\ argStop = DefaultDate
    /\ argAmount = 0
    /\ ret = DefaultDate
    /\ retBool = FALSE
    /\ status = "running"
    /\ lastSet = "none"
    /\ everAccepted = FALSE
    /\ calledHoliday = {}
    /\ calledRecurring = {}
    /\ \E calls \in [Threads -> MutatorCalls] :
          frames = [pc |-> "mutators",
                    mtx_ |-> 0,
                    order |-> <<>>,
                    thread |-> [t \in Threads |->
                                  [call |-> calls[t].call, start |-> calls[t].start,
                                   stop |-> calls[t].stop, at |-> "call"]]]

\* thread t is at position at of the call named call
MutatorAt(t, call, at) ==
    /\ frames.pc = "mutators"
    /\ frames.thread[t].call = call
    /\ frames.thread[t].at = at

\* a lock_guard constructor that returns without waiting for mtx_
Mutator_Lock_NoWait(t) ==
    /\ frames.pc = "mutators"
    /\ frames.thread[t].at = "call"
    /\ frames' = [frames EXCEPT !.thread[t].at = "locked", !.mtx_ = t,
                                !.order = Append(@, t)]
    /\ UNCHANGED <<workday_start_, workday_stop_, workday_duration_, holidays_,
                   recurring_holidays_, op, argStart, argStop, argAmount, ret, retBool,
                   status, lastSet, everAccepted, calledHoliday, calledRecurring>>

\* std::lock_guard<std::mutex> lock(mtx_): returns once mtx_ is free
Mutator_Lock(t) ==
    /\ frames.pc = "mutators"
    /\ frames.thread[t].at = "call"
    /\ frames.mtx_ = 0
    /\ frames' = [frames EXCEPT !.thread[t].at = "locked", !.mtx_ = t,
                                !.order = Append(@, t)]
    /\ UNCHANGED <<workday_start_, workday_stop_, workday_duration_, holidays_,
                   recurring_holidays_, op, argStart, argStop, argAmount, ret, retBool,
                   status, lastSet, everAccepted, calledHoliday, calledRecurring>>

\* setWorkdayStartAndStop: the assignment to workday_start_ of the branch taken
Mutator_AssignStart(t) ==
    /\ MutatorAt(t, "setWorkdayStartAndStop", "locked")
    /\ workday_start_' = StoredAfterSet(frames.thread[t].start, frames.thread[t].stop).start
    /\ frames' = [frames EXCEPT !.thread[t].at = "startAssigned"]
    /\ UNCHANGED <<workday_stop_, workday_duration_, holidays_,
                   recurring_holidays_, op, argStart, argStop, argAmount, ret, retBool,
                   status, lastSet, everAccepted, calledHoliday, calledRecurring>>

\* setWorkdayStartAndStop: the assignment to workday_stop_ of the branch taken
Mutator_AssignStop(t) ==
    /\ MutatorAt(t, "setWorkdayStartAndStop", "startAssigned")
    /\ workday_stop_' = StoredAfterSet(frames.thread[t].start, frames.thread[t].stop).stop
    /\ frames' = [frames EXCEPT !.thread[t].at = "stopAssigned"]
    /\ UNCHANGED <<workday_start_, workday_duration_, holidays_,
                   recurring_holidays_, op, argStart, argStop, argAmount, ret, retBool,
                   status, lastSet, everAccepted, calledHoliday, calledRecurring>>

\* setWorkdayStartAndStop: updateWorkingDuration() of the accepting branch,
\* which reads the stored start and stop, and the return, which releases mtx_
Mutator_UpdateDurationAndReturn(t) ==
    /\ MutatorAt(t, "setWorkdayStartAndStop", "stopAssigned")
    /\ LET accepted == isValidDate(frames.thread[t].start)
                          /\ isValidDate(frames.thread[t].stop)
       IN /\ workday_duration_' =
                 IF accepted /\ workday_start_ # nullptr /\ workday_stop_ # nullptr
                 THEN updateWorkingDuration(workday_start_[1], workday_stop_[1])
                 ELSE workday_duration_
          /\ lastSet' = IF accepted THEN "accepted" ELSE "rejected"
          /\ everAccepted' = (everAccepted \/ accepted)
    /\ frames' = [frames EXCEPT !.thread[t].at = "done", !.mtx_ = 0]
    /\ UNCHANGED <<workday_start_, workday_stop_, holidays_,
                   recurring_holidays_, op, argStart, argStop, argAmount, ret, retBool,
                   status, calledHoliday, calledRecurring>>

\* setHoliday: calendar_->setHoliday(date), and the return, which releases mtx_
Mutator_SetHolidayAndReturn(t) ==
    /\ MutatorAt(t, "setHoliday", "locked")
    /\ holidays_' = GregorianCalendar_setHoliday(frames.thread[t].start)
    /\ calledHoliday' = IF isValidDate(frames.thread[t].start)
                        THEN calledHoliday \cup {<<frames.thread[t].start.year,
                                                    frames.thread[t].start.month,
                                                    frames.thread[t].start.day>>}
                        ELSE calledHoliday
    /\ frames' = [frames EXCEPT !.thread[t].at = "done", !.mtx_ = 0]
    /\ UNCHANGED <<workday_start_, workday_stop_, workday_duration_,
                   recurring_holidays_, op, argStart, argStop, argAmount, ret, retBool,
                   status, lastSet, everAccepted, calledRecurring>>

\* setRecurringHoliday: calendar_->setRecurringHoliday(date), and the return,
\* which releases mtx_
Mutator_SetRecurringHolidayAndReturn(t) ==
    /\ MutatorAt(t, "setRecurringHoliday", "locked")
    /\ recurring_holidays_' = GregorianCalendar_setRecurringHoliday(frames.thread[t].start)
    /\ calledRecurring' = IF isValidDate(frames.thread[t].start)
                          THEN calledRecurring \cup {<<frames.thread[t].start.month,
                                                        frames.thread[t].start.day>>}
                          ELSE calledRecurring
    /\ frames' = [frames EXCEPT !.thread[t].at = "done", !.mtx_ = 0]
    /\ UNCHANGED <<workday_start_, workday_stop_, workday_duration_,
                   holidays_, op, argStart, argStop, argAmount, ret, retBool,
                   status, lastSet, everAccepted, calledHoliday>>

MutatorsNext ==
    \/ \E t \in Threads : Mutator_Lock(t)
    \/ \E t \in Threads : Mutator_AssignStart(t)
    \/ \E t \in Threads : Mutator_AssignStop(t)
    \/ \E t \in Threads : Mutator_UpdateDurationAndReturn(t)
    \/ \E t \in Threads : Mutator_SetHolidayAndReturn(t)
    \/ \E t \in Threads : Mutator_SetRecurringHolidayAndReturn(t)

MutatorsSpec == MutatorsInit /\ [][MutatorsNext]_vars

\* ------------------------------------------------------------------------
\* An increment followed by the decrement of the same amount from the date the
\* increment returned, on an engine whose configuration and holiday sets were
\* built by accepted and valid calls and stay as they are
\* ------------------------------------------------------------------------
RoundTripWorkdays ==
    { <<Date(2004, 1, 1, 8, 0), Date(2004, 1, 1, 16, 0)>>,
      <<Date(2024, 5, 20, 9, 30), Date(2024, 5, 20, 17, 0)>> }

RoundTripHolidays ==
    { [holidays |-> {}, recurring |-> {}],
      [holidays |-> {Date(2024, 7, 4, 0, 0)}, recurring |-> {Date(2024, 12, 25, 0, 0)}],
      [holidays |-> {Date(2024, 2, 29, 0, 0), Date(2024, 12, 31, 0, 0)},
       recurring |-> {Date(2004, 1, 1, 0, 0)}] }

RoundTripDays ==
    { <<2024, 2, d>> : d \in 26..29 } \cup { <<2024, 3, d>> : d \in 1..4 }
    \cup { <<2024, 7, d>> : d \in 1..5 }
    \cup { <<2024, 12, d>> : d \in 23..31 }

RoundTripTimes ==
    { <<8, 0>>, <<9, 30>>, <<11, 30>>, <<14, 0>>, <<15, 7>>, <<15, 59>>, <<16, 0>>,
      <<16, 59>> }

\* amounts in quarter workdays, from 0 to MaxWholeDays + 0.75
RoundTripAmounts == 0..(4 * MaxWholeDays + 3)

RoundTripInit ==
    /\ \E w \in RoundTripWorkdays :
          /\ workday_start_ = make_unique(w[1])
          /\ workday_stop_ = make_unique(w[2])
          /\ workday_duration_ = updateWorkingDuration(w[1], w[2])
    /\ \E h \in RoundTripHolidays :
          /\ holidays_ = {getDate(d) : d \in h.holidays}
          /\ calledHoliday = {<<d.year, d.month, d.day>> : d \in h.holidays}
          /\ recurring_holidays_ = {<<d.month, d.day>> : d \in h.recurring}
          /\ calledRecurring = {<<d.month, d.day>> : d \in h.recurring}
    /\ op = "none"
    /\ \E d \in RoundTripDays, t \in RoundTripTimes :
          argStart = Date(d[1], d[2], d[3], t[1], t[2])
    /\ argAmount \in RoundTripAmounts
    /\ argStop = DefaultDate
    /\ ret = DefaultDate
    /\ retBool = FALSE
    /\ status = "returned"
    /\ lastSet = "accepted"
    /\ everAccepted = TRUE
    /\ frames = NoFrames

\* Date incremented = getWorkdayIncrement(d, a)
RoundTrip_Increment ==
    /\ op = "none"
    /\ \E o \in getWorkdayIncrementOutcomes(argStart, argAmount) :
          /\ status' = o.status
          /\ ret' = o.ret
    /\ op' = "getWorkdayIncrement"
    /\ UNCHANGED <<workday_start_, workday_stop_, workday_duration_, holidays_,
                   recurring_holidays_, argStart, argStop, argAmount, retBool, lastSet,
                   everAccepted, calledHoliday, calledRecurring, frames>>

\* getWorkdayIncrement(incremented, -a); the date the increment returned is
\* kept in frames.incremented
RoundTrip_Decrement ==
    /\ op = "getWorkdayIncrement" /\ status = "returned"
    /\ \E o \in getWorkdayIncrementOutcomes(ret, -argAmount) :
          /\ status' = o.status
          /\ ret' = o.ret
    /\ op' = "getWorkdayIncrement;getWorkdayIncrement"
    /\ frames' = [pc |-> "none", incremented |-> ret]
    /\ UNCHANGED <<workday_start_, workday_stop_, workday_duration_, holidays_,
                   recurring_holidays_, argStart, argStop, argAmount, retBool, lastSet,
                   everAccepted, calledHoliday, calledRecurring>>

RoundTripNext ==
    \/ RoundTrip_Increment
    \/ RoundTrip_Decrement

RoundTripSpec == RoundTripInit /\ [][RoundTripNext]_vars

\* ------------------------------------------------------------------------
\* Vocabulary of the properties, stated from the specification
\* ------------------------------------------------------------------------
Sentinel == Date(-1, -1, -1, -1, -1)

LeapYear(y) == (y % 4 = 0 /\ y % 100 # 0) \/ y % 400 = 0

DaysIn(y, m) ==
    CASE m \in {4, 6, 9, 11} -> 30
      [] m = 2 -> IF LeapYear(y) THEN 29 ELSE 28
      [] OTHER -> 31

\* a valid DateValue
ValidDate(d) ==
    /\ d.year >= 0
    /\ d.month \in 1..12
    /\ d.day >= 1 /\ d.day <= DaysIn(d.year, d.month)
    /\ d.hour \in 0..23
    /\ d.minute \in 0..59

Present(p) == p # <<>>
Absent(p) == p = <<>>

ClockMinutes(d) == 60 * d.hour + d.minute

\* a configuration is stored and its start time is before its stop time
StartBeforeStop ==
    /\ Present(workday_start_) /\ Present(workday_stop_) /\ Present(workday_duration_)
    /\ ClockMinutes(workday_start_[1]) < ClockMinutes(workday_stop_[1])

\* d is a valid date on a working day with its clock time in [start, stop)
InsideWorkWindow(d) ==
    /\ StartBeforeStop
    /\ ValidDate(d)
    /\ ~isHoliday(d)
    /\ ClockMinutes(workday_start_[1]) <= ClockMinutes(d)
    /\ ClockMinutes(d) < ClockMinutes(workday_stop_[1])

GetReturned == op = "getWorkdayIncrement" /\ status = "returned"

\* ------------------------------------------------------------------------
\* C1: getWorkdayIncrement returns the sentinel when no setWorkdayStartAndStop
\* call has been accepted yet, and when its start date is not a valid date.
\* ------------------------------------------------------------------------
C1_SentinelUnconfiguredOrInvalidStart ==
    (op = "getWorkdayIncrement" /\ (~everAccepted \/ ~ValidDate(argStart)))
        => (status = "returned" /\ ret = Sentinel)

\* an invalid start date was passed while a configuration was stored
C1_Witness ==
    /\ op = "getWorkdayIncrement"
    /\ ~ValidDate(argStart)
    /\ argStart # Sentinel
    /\ Present(workday_start_) /\ Present(workday_stop_) /\ Present(workday_duration_)
    /\ status = "returned" /\ ret = Sentinel

\* ------------------------------------------------------------------------
\* C2: after a setWorkdayStartAndStop call with an invalid argument the stored
\* start and stop are both absent, whatever was stored before; start and stop
\* are always both present or both absent.
\* ------------------------------------------------------------------------
C2_RejectedSetClearsStartAndStop ==
    /\ (op = "setWorkdayStartAndStop" /\ (~ValidDate(argStart) \/ ~ValidDate(argStop)))
           => (Absent(workday_start_) /\ Absent(workday_stop_))
    /\ Absent(workday_start_) <=> Absent(workday_stop_)

\* a call with a valid start and an invalid stop was rejected after an
\* earlier call had been accepted
C2_Witness ==
    /\ op = "setWorkdayStartAndStop"
    /\ ValidDate(argStart) /\ ~ValidDate(argStop)
    /\ everAccepted
    /\ Absent(workday_start_) /\ Absent(workday_stop_)

\* ------------------------------------------------------------------------
\* C3: with an accepted configuration and a valid start date,
\* getWorkdayIncrement always completes and returns a DateValue.
\* ------------------------------------------------------------------------
C3_AlwaysReturns ==
    (op = "getWorkdayIncrement" /\ lastSet = "accepted" /\ ValidDate(argStart))
        => status = "returned"

\* ------------------------------------------------------------------------
\* C4: start, stop and duration are all three present or all three absent.
\* ------------------------------------------------------------------------
C4_AllPresentOrAllAbsent ==
    \/ Present(workday_start_) /\ Present(workday_stop_) /\ Present(workday_duration_)
    \/ Absent(workday_start_) /\ Absent(workday_stop_) /\ Absent(workday_duration_)

\* ------------------------------------------------------------------------
\* C5: when the most recent setWorkdayStartAndStop call was rejected,
\* getWorkdayIncrement returns the sentinel, also after an earlier accepted
\* call.
\* ------------------------------------------------------------------------
C5_SentinelAfterRejectedSet ==
    (op = "getWorkdayIncrement" /\ lastSet = "rejected")
        => (status = "returned" /\ ret = Sentinel)

\* a valid start date was passed after an accepted and then a rejected call
C5_Witness ==
    /\ op = "getWorkdayIncrement"
    /\ lastSet = "rejected" /\ everAccepted
    /\ ValidDate(argStart)
    /\ status = "returned" /\ ret = Sentinel

\* ------------------------------------------------------------------------
\* Calendar days of the properties: <<year, month, day>>
\* ------------------------------------------------------------------------
DayOf(d) == <<d.year, d.month, d.day>>

DayBefore(a, b) ==
    \/ a[1] < b[1]
    \/ a[1] = b[1] /\ a[2] < b[2]
    \/ a[1] = b[1] /\ a[2] = b[2] /\ a[3] < b[3]

WorkingDay(x) == ~isHoliday(Date(x[1], x[2], x[3], 0, 0))

\* the working days x of the calendar with lo < x <= hi (after lo, up to hi)
WorkingDaysAfterUpTo(lo, hi) ==
    { x \in (lo[1]..hi[1]) \X (1..12) \X (1..31) :
        /\ DayBefore(lo, x) /\ ~DayBefore(hi, x)
        /\ x[3] <= DaysIn(x[1], x[2])
        /\ WorkingDay(x) }

\* the working days x of the calendar with lo <= x < hi (from lo, before hi)
WorkingDaysFromBefore(lo, hi) ==
    { x \in (lo[1]..hi[1]) \X (1..12) \X (1..31) :
        /\ ~DayBefore(x, lo) /\ DayBefore(x, hi)
        /\ x[3] <= DaysIn(x[1], x[2])
        /\ WorkingDay(x) }

NextDay(x) ==
    IF x[3] < DaysIn(x[1], x[2]) THEN <<x[1], x[2], x[3] + 1>>
    ELSE IF x[2] < 12 THEN <<x[1], x[2] + 1, 1>>
    ELSE <<x[1] + 1, 1, 1>>

PrevDay(x) ==
    IF x[3] > 1 THEN <<x[1], x[2], x[3] - 1>>
    ELSE IF x[2] > 1 THEN <<x[1], x[2] - 1, DaysIn(x[1], x[2] - 1)>>
    ELSE <<x[1] - 1, 12, 31>>

RECURSIVE FirstWorkingDayAfter(_)
FirstWorkingDayAfter(x) ==
    IF WorkingDay(NextDay(x)) THEN NextDay(x) ELSE FirstWorkingDayAfter(NextDay(x))

RECURSIVE LastWorkingDayBefore(_)
LastWorkingDayBefore(x) ==
    IF WorkingDay(PrevDay(x)) THEN PrevDay(x) ELSE LastWorkingDayBefore(PrevDay(x))

\* the calendar day x at the clock time of mins minutes after midnight
AtClock(x, mins) == Date(x[1], x[2], x[3], mins \div 60, mins % 60)

StartClock == ClockMinutes(workday_start_[1])
StopClock == ClockMinutes(workday_stop_[1])

C10_InvalidHolidayIsNoOp ==
    [][ (op = "none" /\ op' \in {"setHoliday", "setRecurringHoliday"}
         /\ ~ValidDate(argStart'))
            => /\ holidays_' = holidays_
               /\ recurring_holidays_' = recurring_holidays_
               /\ status' = "returned"
               /\ \A d \in ProbeDates : isHoliday(d)' = isHoliday(d) ]_vars

\* setHoliday returned from a call with an invalid date while both sets held
\* registered holidays
C10_Witness ==
    /\ op = "setHoliday" /\ ~ValidDate(argStart)
    /\ holidays_ # {} /\ recurring_holidays_ # {}
    /\ status = "returned"

\* ------------------------------------------------------------------------
\* Day of the week of the properties: days counted from 0000-01-01, a
\* Saturday of the Gregorian calendar (0 = Sunday .. 6 = Saturday)
\* ------------------------------------------------------------------------
DaysBeforeYear(y) ==
    365 * y + (IF y = 0 THEN 0
               ELSE ((y - 1) \div 4) - ((y - 1) \div 100) + ((y - 1) \div 400) + 1)

RECURSIVE DaysBeforeMonth(_, _)
DaysBeforeMonth(y, m) ==
    IF m = 1 THEN 0 ELSE DaysBeforeMonth(y, m - 1) + DaysIn(y, m - 1)

Weekday(d) ==
    (DaysBeforeYear(d.year) + DaysBeforeMonth(d.year, d.month) + (d.day - 1) + 6) % 7

\* ------------------------------------------------------------------------
\* C11: for a valid date d, isHoliday(d) is true exactly when d is a Saturday
\* or Sunday, or setHoliday was called with a valid date of the same year,
\* month and day, or setRecurringHoliday was called with a valid date of the
\* same month and day.
\* ------------------------------------------------------------------------
C11_HolidayIffWeekendOrRegistered ==
    (op = "isHoliday" /\ ValidDate(argStart))
        => (retBool <=> \/ Weekday(argStart) \in {0, 6}
                        \/ <<argStart.year, argStart.month, argStart.day>> \in calledHoliday
                        \/ <<argStart.month, argStart.day>> \in calledRecurring)

\* ------------------------------------------------------------------------
\* C12: isValidDate(y, m, d, h, min) is true exactly when y >= 0,
\* 1 <= m <= 12, 1 <= d <= the days of month m of year y, 0 <= h < 24 and
\* 0 <= min < 60, February having 29 days exactly in leap years; Feb 29 is
\* valid in 2024 and 2000, invalid in 2023 and 1900, and the default date and
\* the sentinel are invalid.
\* ------------------------------------------------------------------------
C12_ValidDateIffFieldsInRange ==
    op = "isValidDate"
        => /\ retBool <=> ValidDate(argStart)
           /\ argStart \in {Date(2024, 2, 29, 0, 0), Date(2000, 2, 29, 0, 0)} => retBool
           /\ argStart \in {Date(2023, 2, 29, 0, 0), Date(1900, 2, 29, 0, 0),
                            Date(0, 0, 0, 0, 0), Sentinel} => ~retBool

\* isValidDate has answered for Feb 29 of the century year 1900
C12_Witness ==
    /\ op = "isValidDate"
    /\ argStart = Date(1900, 2, 29, 9, 30)
    /\ ~retBool

\* ------------------------------------------------------------------------
\* C13: a getWorkdayIncrement call that runs concurrently with a
\* setWorkdayStartAndStop call never reads an absent start or stop after its
\* presence check, and once both calls have ended its result is the result
\* under the configuration before the mutation or under the one after it.
\* This is stated of the calls that read no Date deleted since its pointer
\* was loaded: every read of theirs is of a Date that is live at the read, or
\* goes through a pointer loaded as nullptr.
\* ------------------------------------------------------------------------
C13_ConcurrentGetSeesOneConfiguration ==
    (frames.pc = "threads" /\ frames.get = "done" /\ ~frames.readFreed)
        => /\ ~frames.readAbsent
           /\ status = "returned"
           /\ frames.set = "done"
                => [status |-> status, ret |-> ret]
                       \in {frames.before}
                           \cup getWorkdayIncrementOutcomes(argStart, argAmount)

\* A day that is not a holiday lies ahead of date in the direction of the
\* loop.  Every date the loop can come to is looked at: the dates from date
\* on through the years of startDate and of holidays_, and every date of the
\* one period of years beyond them that stands for all the later (counting
\* down: earlier) years.
NonHolidayDayAhead(date, decrement) ==
    LET ordinal(d) == d.year * 10000 + d.month * 100 + d.day
        repeating == IF decrement THEN date.year < BackwardLoopYear
                                  ELSE date.year > LastLoopYear
        first == IF decrement THEN BackwardLoopYear - GregorianPeriod
                 ELSE IF repeating THEN LastLoopYear + 1 ELSE date.year
        last == IF ~decrement THEN LastLoopYear + GregorianPeriod
                ELSE IF repeating THEN BackwardLoopYear - 1 ELSE date.year
    IN \E year \in first..last, month \in 1..12 :
           \E day \in 1..daysInMonth(year, month) :
               LET ahead == [date EXCEPT !.year = year, !.month = month, !.day = day]
               IN /\ \/ repeating
                     \/ IF decrement THEN ordinal(ahead) <= ordinal(date)
                                     ELSE ordinal(ahead) >= ordinal(date)
                  /\ ~isHoliday(ahead)

\* ------------------------------------------------------------------------
\* C14: getWorkdayIncrement terminates for every valid startDate, amount and
\* pair of holiday sets built through setHoliday and setRecurringHoliday:
\* while the "move to first workday" loop runs, a day that is not a holiday
\* lies ahead of its date, so that the loop reaches it after finitely many
\* single-day steps, and the call returns.
\* ------------------------------------------------------------------------
C14_GetWorkdayIncrementTerminates ==
    /\ [](frames.pc = "align" => NonHolidayDayAhead(frames.current, argAmount < 0))
    /\ <>(frames.pc = "done")

\* ------------------------------------------------------------------------
\* C15: for every accepted configuration (a stop clock time earlier than the
\* start clock time included), every valid startDate and every amount, the
\* value getWorkdayIncrement returns is the sentinel or a valid date.
\* ------------------------------------------------------------------------
C15_ReturnsSentinelOrValidDate ==
    (op = "getWorkdayIncrement" /\ status = "returned" /\ lastSet = "accepted"
     /\ ValidDate(argStart))
        => (ret = Sentinel \/ ValidDate(ret))

\* d is a valid date on a working day, and start < stop is configured
OnWorkingDay(d) == StartBeforeStop /\ ValidDate(d) /\ ~isHoliday(d)

\* what the getWorkdayIncrement call that last ran returned, or that it aborted
Outcome == [status |-> status, ret |-> ret]

C19_DecrementFromOutsideWindow ==
    (op = "getWorkdayIncrement" /\ argAmount < 0 /\ OnWorkingDay(argStart))
        => /\ ClockMinutes(argStart) > StopClock
                => Outcome \in getWorkdayIncrementOutcomes(
                       AtClock(DayOf(argStart), StopClock), argAmount)
           /\ ClockMinutes(argStart) < StartClock
                => Outcome \in getWorkdayIncrementOutcomes(
                       AtClock(LastWorkingDayBefore(DayOf(argStart)), StopClock), argAmount)

\* whole workdays and a half back from 07:03
C19_Witness ==
    /\ op = "getWorkdayIncrement" /\ argAmount < -4 /\ argAmount % 4 # 0
    /\ OnWorkingDay(argStart)
    /\ ClockMinutes(argStart) < StartClock
    /\ status = "returned" /\ ValidDate(ret)

\* ------------------------------------------------------------------------
\* C20: for a valid date d, addDay(d) is the next calendar day and a valid
\* date (month end to day 1 of the next month, Dec 31 to Jan 1 of the next
\* year, Feb 28 to Feb 29 exactly in leap years), removeDay(addDay(d)) = d,
\* and addDay and removeDay leave hour and minute unchanged.
\* ------------------------------------------------------------------------
C20_AddDayIsNextDayAndRemoveDayItsInverse ==
    ValidDate(argStart)
        => /\ op = "addDay"
                => /\ ValidDate(ret)
                   /\ DayOf(ret) = NextDay(DayOf(argStart))
                   /\ ret.hour = argStart.hour /\ ret.minute = argStart.minute
                   /\ (argStart.month = 12 /\ argStart.day = 31)
                        => DayOf(ret) = <<argStart.year + 1, 1, 1>>
                   /\ (argStart.month = 2 /\ argStart.day = 28)
                        => DayOf(ret) = IF LeapYear(argStart.year)
                                        THEN <<argStart.year, 2, 29>>
                                        ELSE <<argStart.year, 3, 1>>
           /\ op = "addDay;removeDay" => ret = argStart
           /\ op = "removeDay"
                => ret.hour = argStart.hour /\ ret.minute = argStart.minute

\* addDay and then removeDay from the leap day of 2000
C20_Witness ==
    /\ op = "addDay;removeDay"
    /\ argStart = Date(2000, 2, 29, 23, 59)
    /\ ret = argStart

\* ------------------------------------------------------------------------
\* C21: after an accepted setWorkdayStartAndStop(start, stop) call the stored
\* start and stop equal the arguments in all five fields and the stored
\* duration is (stop - start) mod 1440 minutes of their clock times, a value
\* in [0, 1440), whatever calls were made before.
\* ------------------------------------------------------------------------
C21_AcceptedSetStoresArgumentsAndDuration ==
    (op = "setWorkdayStartAndStop" /\ ValidDate(argStart) /\ ValidDate(argStop))
        => /\ Present(workday_start_) /\ Present(workday_stop_) /\ Present(workday_duration_)
           /\ \A f \in {"year", "month", "day", "hour", "minute"} :
                 /\ workday_start_[1][f] = argStart[f]
                 /\ workday_stop_[1][f] = argStop[f]
           /\ ClockMinutes(workday_duration_[1])
                  = (ClockMinutes(argStop) - ClockMinutes(argStart)) % 1440
           /\ ClockMinutes(workday_duration_[1]) \in 0..1439
           /\ workday_duration_[1].hour \in 0..23
           /\ workday_duration_[1].minute \in 0..59

\* an accepted call whose stop clock time is earlier than its start clock
\* time, with start and stop on different calendar days
C21_Witness ==
    /\ op = "setWorkdayStartAndStop" /\ ValidDate(argStart) /\ ValidDate(argStop)
    /\ ClockMinutes(argStop) < ClockMinutes(argStart)
    /\ DayOf(argStart) # DayOf(argStop)
    /\ workday_start_ = <<argStart>> /\ workday_stop_ = <<argStop>>
    /\ ClockMinutes(workday_duration_[1])
           = 1440 - (ClockMinutes(argStart) - ClockMinutes(argStop))
    /\ workday_duration_[1].minute # 0

\* ------------------------------------------------------------------------
\* The mutating calls made one after the other, stated from the
\* specification: the configuration and holiday sets after each call
\* ------------------------------------------------------------------------
FreshEngine ==
    [start |-> <<>>, stop |-> <<>>, duration |-> <<>>, holidays |-> {}, recurring |-> {}]

Engine ==
    [start |-> workday_start_, stop |-> workday_stop_, duration |-> workday_duration_,
     holidays |-> holidays_, recurring |-> recurring_holidays_]

\* the engine e after the mutating call c has run on it alone
AfterCall(e, c) ==
    CASE c.call = "setWorkdayStartAndStop" ->
            IF ValidDate(c.start) /\ ValidDate(c.stop)
            THEN LET m == (ClockMinutes(c.stop) - ClockMinutes(c.start)) % 1440
                 IN [e EXCEPT !.start = <<c.start>>, !.stop = <<c.stop>>,
                              !.duration = <<Date(0, 0, 0, m \div 60, m % 60)>>]
            ELSE [e EXCEPT !.start = <<>>, !.stop = <<>>]
      [] c.call = "setHoliday" ->
            IF ValidDate(c.start)
            THEN [e EXCEPT !.holidays = @ \cup {getDate(c.start)}]
            ELSE e
      [] c.call = "setRecurringHoliday" ->
            IF ValidDate(c.start)
            THEN [e EXCEPT !.recurring = @ \cup {<<c.start.month, c.start.day>>}]
            ELSE e

\* the engine after the calls of the threads listed in order, one after the other
RECURSIVE AfterCalls(_, _)
AfterCalls(e, order) ==
    IF order = <<>> THEN e
    ELSE AfterCalls(AfterCall(e, frames.thread[Head(order)]), Tail(order))

\* the threads inside the section their lock_guard protects
InsideSection ==
    { t \in Threads : frames.thread[t].at \in {"locked", "startAssigned", "stopAssigned"} }

\* ------------------------------------------------------------------------
\* C22: setWorkdayStartAndStop, setHoliday and setRecurringHoliday are
\* mutually exclusive on one engine: at most one thread is inside the
\* read-and-update section of a mutating call, and whenever no thread is
\* inside one, the configuration and the holiday sets are those that the
\* calls that have entered so far produce when run one after the other in
\* the order they entered, so no mutator sees a partial update of another.
\* ------------------------------------------------------------------------
C22_MutatorsAreMutuallyExclusive ==
    frames.pc = "mutators"
        => /\ Cardinality(InsideSection) <= 1
           /\ InsideSection = {} => Engine = AfterCalls(FreshEngine, frames.order)
           /\ \A t \in InsideSection :
                 /\ frames.mtx_ = t
                 /\ frames.thread[t].at = "locked"
                      => Engine = AfterCalls(FreshEngine,
                                             SubSeq(frames.order, 1, Len(frames.order) - 1))

\* all threads have returned: two accepted setWorkdayStartAndStop calls with
\* different arguments and a holiday registration ran on the same engine
C22_Witness ==
    /\ frames.pc = "mutators"
    /\ \A t \in Threads : frames.thread[t].at = "done"
    /\ \E t, u, v \in Threads :
          /\ frames.thread[t].call = "setWorkdayStartAndStop"
          /\ frames.thread[u].call = "setWorkdayStartAndStop"
          /\ frames.thread[t].start # frames.thread[u].start
          /\ ValidDate(frames.thread[t].start) /\ ValidDate(frames.thread[t].stop)
          /\ ValidDate(frames.thread[u].start) /\ ValidDate(frames.thread[u].stop)
          /\ frames.thread[v].call = "setHoliday"
          /\ frames.order[3] = t
    /\ holidays_ # {}
    /\ Present(workday_start_)

\* the getWorkdayIncrement call that last ran returned a date other than the
\* sentinel for a valid start date, under a configuration with start < stop
ReturnedDate ==
    /\ GetReturned
    /\ StartBeforeStop
    /\ ValidDate(argStart)
    /\ ret # Sentinel

\* ------------------------------------------------------------------------
\* C23: with start < stop, for every valid startDate, every amount and every
\* pair of holiday sets, the date of a non-sentinel result of
\* getWorkdayIncrement is not a Saturday, not a Sunday, not a date registered
\* with setHoliday and not a month and day registered with
\* setRecurringHoliday.
\* ------------------------------------------------------------------------
C23_ResultIsNeverOnWeekendOrHoliday ==
    ReturnedDate
        => /\ Weekday(ret) \notin {0, 6}
           /\ DayOf(ret) \notin calledHoliday
           /\ <<ret.month, ret.day>> \notin calledRecurring

\* ------------------------------------------------------------------------
\* C24: with start < stop, the clock time of every non-sentinel result of
\* getWorkdayIncrement lies in the closed work window, start <= time <= stop,
\* for every valid startDate (inside or outside working hours, on a holiday
\* or not) and every amount of either sign.
\* ------------------------------------------------------------------------
C24_ResultClockInsideClosedWindow ==
    ReturnedDate
        => /\ ret.hour \in 0..23 /\ ret.minute \in 0..59
           /\ StartClock <= ClockMinutes(ret)
           /\ ClockMinutes(ret) <= StopClock

\* a decrement started after working hours on a holiday or weekend day that
\* ends at the stop time itself
C24_Witness ==
    /\ ReturnedDate
    /\ argAmount < 0
    /\ isHoliday(argStart)
    /\ ClockMinutes(argStart) > StopClock
    /\ ClockMinutes(ret) = StopClock
    /\ DayBefore(DayOf(ret), PrevDay(DayOf(argStart)))

\* ------------------------------------------------------------------------
\* C25: with start < stop and an unchanged configuration, for every
\* non-holiday date d with clock time in [start, stop) and every amount
\* a >= 0 whose minute count a * duration is a whole number, decrementing the
\* incremented date by the same amount returns the original date:
\* getWorkdayIncrement(getWorkdayIncrement(d, a), -a) = d.
\* ------------------------------------------------------------------------
C25_DecrementUndoesIncrement ==
    (op = "getWorkdayIncrement;getWorkdayIncrement"
     /\ InsideWorkWindow(argStart)
     /\ argAmount >= 0
     /\ (argAmount * (StopClock - StartClock)) % 4 = 0)
        => (status = "returned" /\ ret = argStart)

\* a round trip of whole workdays and a fraction whose increment rolls over
\* the stop time and passes a registered holiday
C25_Witness ==
    /\ op = "getWorkdayIncrement;getWorkdayIncrement"
    /\ InsideWorkWindow(argStart)
    /\ argAmount > 4 /\ argAmount % 4 # 0
    /\ (argAmount * (StopClock - StartClock)) % 4 = 0
    /\ ClockMinutes(frames.incremented) < ClockMinutes(argStart)
    /\ \E x \in calledHoliday :
          /\ DayBefore(DayOf(argStart), x) /\ DayBefore(x, DayOf(frames.incremented))
          /\ Weekday(Date(x[1], x[2], x[3], 0, 0)) \in 1..5
    /\ ret = argStart

\* a is earlier than b, compared as year, month, day, hour, minute
EarlierThan(a, b) ==
    \/ DayBefore(DayOf(a), DayOf(b))
    \/ DayOf(a) = DayOf(b) /\ a.hour < b.hour
    \/ DayOf(a) = DayOf(b) /\ a.hour = b.hour /\ a.minute < b.minute

\* ------------------------------------------------------------------------
\* C26: with start < stop, getWorkdayIncrement never moves against its
\* direction: for every valid startDate (on a holiday or outside working
\* hours included) a non-sentinel result is not earlier than startDate when
\* amount >= 0 and not later than startDate when amount < 0.
\* ------------------------------------------------------------------------
C26_NeverMovesAgainstDirection ==
    ReturnedDate
        => /\ argAmount >= 0 => ~EarlierThan(ret, argStart)
           /\ argAmount < 0 => ~EarlierThan(argStart, ret)

\* an increment started after the stop time on the day before a registered
\* holiday: the result is later than the start date, two or more days on
C26_Witness ==
    /\ ReturnedDate
    /\ argAmount >= 0
    /\ ~isHoliday(argStart)
    /\ ClockMinutes(argStart) > StopClock
    /\ DayOf(addDay(argStart)) \in calledHoliday
    /\ EarlierThan(argStart, ret)
    /\ ClockMinutes(ret) < ClockMinutes(argStart)
    /\ DayBefore(NextDay(DayOf(argStart)), DayOf(ret))

\* the call named name has run in this step
Ran(name) == op = "none" /\ op' = name

\* ------------------------------------------------------------------------
\* C27: setWorkdayStartAndStop, accepted or rejected, leaves both holiday
\* sets unchanged; setHoliday and setRecurringHoliday leave start, stop and
\* duration unchanged; getWorkdayIncrement and isHoliday leave start, stop,
\* duration and both holiday sets unchanged; and a date registered as a
\* holiday is a holiday after every later sequence of calls.
\* ------------------------------------------------------------------------
C27_CallsLeaveTheOtherHalfUnchanged ==
    /\ [][ /\ Ran("setWorkdayStartAndStop")
                => /\ holidays_' = holidays_
                   /\ recurring_holidays_' = recurring_holidays_
                   /\ \A d \in ProbeDates : isHoliday(d)' = isHoliday(d)
           /\ (Ran("setHoliday") \/ Ran("setRecurringHoliday"))
                => /\ workday_start_' = workday_start_
                   /\ workday_stop_' = workday_stop_
                   /\ workday_duration_' = workday_duration_
           /\ (Ran("getWorkdayIncrement") \/ Ran("isHoliday"))
                => /\ workday_start_' = workday_start_
                   /\ workday_stop_' = workday_stop_
                   /\ workday_duration_' = workday_duration_
                   /\ holidays_' = holidays_
                   /\ recurring_holidays_' = recurring_holidays_ ]_vars
    /\ [](\A d \in ProbeDates :
             (DayOf(d) \in calledHoliday \/ <<d.month, d.day>> \in calledRecurring)
                 => isHoliday(d))

\* a rejected setWorkdayStartAndStop call has returned on an engine that had
\* an accepted configuration, a one-time holiday on a weekday and a
\* recurring holiday, and the holiday is still a holiday
C27_Witness ==
    /\ op = "setWorkdayStartAndStop" /\ lastSet = "rejected" /\ everAccepted
    /\ Absent(workday_start_) /\ Present(workday_duration_)
    /\ calledRecurring # {}
    /\ \E d \in ProbeDates :
          /\ DayOf(d) \in calledHoliday
          /\ Weekday(d) \in 1..5
          /\ isHoliday(d)

====
